---------------------------- MODULE Spec2Model ----------------------------
(***************************************************************************)
(* A model of the vix cache module: the CacheKey builder, the header       *)
(* normalisation, the cache policy, the LRU memory store, the file store   *)
(* and the Cache facade.                                                   *)
(*                                                                         *)
(* Text (std::string) is a sequence of character codes (ASCII), so that    *)
(* case conversion, trimming, splitting and the byte order of strings are  *)
(* computed as the code computes them.  Store keys are opaque, so they are *)
(* TLA+ strings.                                                           *)
(***************************************************************************)
EXTENDS Integers, Sequences, FiniteSets, TLC

VARIABLES
    cfg_,       \* LruMemoryStore::cfg_ (Config: max_entries)
    lru_,       \* LruMemoryStore::lru_: the list's nodes, front first
    map_,       \* LruMemoryStore::map_: key -> Node (entry, it)
    uses,       \* history: the live keys by their last put or successful get, oldest first
    policy_,    \* Cache::policy_
    op,         \* history: the last operation, its arguments and what it returned
    reqA,       \* CacheKey: a request
    keyA,       \* CacheKey: the key built from reqA
    reqB,       \* CacheKey: a second request, a variation of reqA
    keyB,       \* CacheKey: the key built from reqB
    file,       \* FileStore: the content of the backing file at cfg_.file_path
    fs_loaded_, \* FileStore::loaded_ of each instance
    fs_map_,    \* FileStore::map_ of each instance
    fs_called,  \* history: the instances an operation has been called on
    mu_,        \* the store's mu_: the thread that holds it, or "free"
    thr,        \* threads: where each is in the call it makes, and its locals
    hist,       \* history of a run with threads: what the calls must have left
    mem_        \* MemoryStore::map_: key -> entry

vars == <<cfg_, lru_, map_, uses, policy_, op, reqA, keyA, reqB, keyB,
          file, fs_loaded_, fs_map_, fs_called, mu_, thr, hist, mem_>>

lruVars  == <<cfg_, lru_, map_, uses>>
keyVars  == <<reqA, keyA, reqB, keyB>>
fileVars == <<file, fs_loaded_, fs_map_, fs_called>>
thrVars  == <<mu_, thr, hist>>

\* std::optional: std::nullopt, or a value
None == [some |-> FALSE]
Some(v) == [some |-> TRUE, val |-> v]

(***************************************************************************)
(* Characters and strings                                                  *)
(***************************************************************************)

\* std::tolower in the "C" locale, on one character
tolower(c) == IF c >= 65 /\ c <= 90 THEN c + 32 ELSE c

\* std::toupper in the "C" locale, on one character
toupper(c) == IF c >= 97 /\ c <= 122 THEN c - 32 ELSE c

\* std::isspace in the "C" locale: space, \t \n \v \f \r
isspace(c) == c = 32 \/ (c >= 9 /\ c <= 13)

\* CacheKey::lower_
lower_(s) == [i \in 1..Len(s) |-> tolower(s[i])]

\* a method string left as given
upper_Mut(s) == s

\* CacheKey::upper_
upper_(s) == [i \in 1..Len(s) |-> toupper(s[i])]

\* CacheKey::trim_
trim_(v) ==
    LET bs == {b \in 1..Len(v) : ~isspace(v[b])}
    IN  IF bs = {} THEN <<>>
        ELSE LET b == CHOOSE x \in bs : \A y \in bs : x <= y
                 e == CHOOSE x \in bs : \A y \in bs : y <= x
             IN  SubSeq(v, b, e)

\* std::string operator< : lexicographic order of the bytes
RECURSIVE StrLess(_, _)
StrLess(a, b) ==
    IF b = <<>> THEN FALSE
    ELSE IF a = <<>> THEN TRUE
    ELSE IF a[1] # b[1] THEN a[1] < b[1]
    ELSE StrLess(Tail(a), Tail(b))

\* std::string_view::find(c, i): the first position >= i holding c, 0 for npos
\* (positions count from 1)
Find(s, c, i) ==
    LET hits == {j \in i..Len(s) : s[j] = c}
    IN  IF hits = {} THEN 0 ELSE CHOOSE j \in hits : \A m \in hits : j <= m

(***************************************************************************)
(* CacheKey                                                                *)
(***************************************************************************)

\* normalizeQuery_, the split loop: the (key, value) items of query from
\* position i on.  '&' is 38, '=' is 61.
RECURSIVE ParseItems(_, _)
ParseItems(query, i) ==
    IF i > Len(query) THEN <<>>
    ELSE LET found == Find(query, 38, i)
             amp   == IF found = 0 THEN Len(query) + 1 ELSE found
             part  == SubSeq(query, i, amp - 1)
             eq    == Find(part, 61, 1)
             k     == IF eq = 0 THEN part ELSE SubSeq(part, 1, eq - 1)
             v     == IF eq = 0 THEN <<>> ELSE SubSeq(part, eq + 1, Len(part))
         IN  <<<<k, v>>>> \o ParseItems(query, amp + 1)

\* normalizeQuery_, the comparator handed to std::sort
ItemLess(a, b) ==
    IF a[1] # b[1] THEN StrLess(a[1], b[1]) ELSE StrLess(a[2], b[2])

\* std::sort under ItemLess: items that compare equal are equal, so the
\* sorted sequence is unique
RECURSIVE SortItems(_)
SortItems(items) ==
    IF items = <<>> THEN <<>>
    ELSE LET rest == SortItems(Tail(items))
             x    == Head(items)
             n    == Cardinality({j \in 1..Len(rest) : ItemLess(rest[j], x)})
         IN  SubSeq(rest, 1, n) \o <<x>> \o SubSeq(rest, n + 1, Len(rest))

\* normalizeQuery_, the output loop: items joined by '&', '=' and the value
\* only when the value is not empty
RECURSIVE JoinItems(_, _)
JoinItems(items, idx) ==
    IF idx > Len(items) THEN <<>>
    ELSE (IF idx > 1 THEN <<38>> ELSE <<>>)
         \o items[idx][1]
         \o (IF items[idx][2] # <<>> THEN <<61>> \o items[idx][2] ELSE <<>>)
         \o JoinItems(items, idx + 1)

\* CacheKey::normalizeQuery_
normalizeQuery_(query) ==
    IF query = <<>> THEN <<>>
    ELSE JoinItems(SortItems(ParseItems(query, 1)), 1)

\* a loop over include_headers that adds nothing to the key
HeaderPartMutNone(headers, include_headers) == <<>>

\* CacheKey::fromRequest, the loop over include_headers: "name=value;" for
\* each listed name found under its exact name, else under its lowercased
\* name.  '=' is 61, ';' is 59.
RECURSIVE HeaderPart(_, _)
HeaderPart(headers, include_headers) ==
    IF include_headers = <<>> THEN <<>>
    ELSE LET name == Head(include_headers)
             hn   == lower_(name)
             this == IF name \in DOMAIN headers
                         THEN hn \o <<61>> \o trim_(headers[name]) \o <<59>>
                     ELSE IF hn \in DOMAIN headers
                         THEN hn \o <<61>> \o trim_(headers[hn]) \o <<59>>
                     ELSE <<>>
         IN  this \o HeaderPart(headers, Tail(include_headers))

\* CacheKey::fromRequest.  ' ' is 32, '?' is 63, " |h:" is 32 124 104 58.
fromRequest(method, path, query, headers, include_headers) ==
    LET m == upper_(method)
        q == normalizeQuery_(query)
    IN  m \o <<32>> \o path
          \o (IF q # <<>> THEN <<63>> \o q ELSE <<>>)
          \o (IF include_headers # <<>>
                  THEN <<32, 124, 104, 58>> \o HeaderPart(headers, include_headers)
                  ELSE <<>>)

\* fromRequest on a request record
KeyOf(r) == fromRequest(r.method, r.path, r.query, r.headers, r.include)

\* the variables of the parts a specification does not use
IdleLru  == cfg_ = [max_entries |-> 0] /\ lru_ = <<>> /\ map_ = <<>> /\ uses = <<>>
IdleKey  == reqA = <<>> /\ keyA = None /\ reqB = <<>> /\ keyB = None
IdleFile ==
    file = [kind |-> "absent"] /\ fs_loaded_ = <<>> /\ fs_map_ = <<>> /\ fs_called = {}
IdlePolicy == policy_ = <<>>
IdleThr == mu_ = "free" /\ thr = <<>> /\ hist = <<>>
IdleMem == mem_ = <<>>

(***************************************************************************)
(* CacheEntry                                                              *)
(***************************************************************************)

\* struct CacheEntry
CacheEntry(status, body, headers, created_at_ms) ==
    [status |-> status, body |-> body, headers |-> headers,
     created_at_ms |-> created_at_ms]

(***************************************************************************)
(* LruMemoryStore.  A node of the std::list lru_ is [id, key]; an iterator *)
(* is the id of the node it points to (list iterators stay valid when      *)
(* other nodes are inserted, erased or spliced).  Every operation takes    *)
(* the list and the map and gives the list and the map it leaves, with     *)
(* what it returns.                                                        *)
(***************************************************************************)

\* std::list::push_front allocates a node: the first id no node of the list has
NewNode(lru) ==
    CHOOSE i \in 0..Len(lru) : \A j \in 1..Len(lru) : lru[j].id # i

\* std::list::erase(it)
ListErase(lru, it) == SelectSeq(lru, LAMBDA n : n.id # it)

\* std::list::splice(begin(), list, it)
ListSpliceFront(lru, it) ==
    SelectSeq(lru, LAMBDA n : n.id = it) \o SelectSeq(lru, LAMBDA n : n.id # it)

\* std::unordered_map::erase
MapErase(map, key) == [k \in DOMAIN map \ {key} |-> map[k]]

\* a touch_ that leaves the list node where it is
touch_MutStay(lru, map, key) == [lru |-> lru, map |-> map]

\* LruMemoryStore::touch_ on the map element of key
touch_(lru, map, key) ==
    LET l == ListSpliceFront(lru, map[key].it)
    IN  [lru |-> l, map |-> [map EXCEPT ![key].it = l[1].id]]

\* an evictIfNeeded_ that evicts nothing
evictIfNeeded_MutNone(lru, map) == [lru |-> lru, map |-> map]

\* an evictIfNeeded_ that takes its victims from the front of the list
RECURSIVE evictIfNeeded_MutFront(_, _)
evictIfNeeded_MutFront(lru, map) ==
    IF Cardinality(DOMAIN map) > cfg_.max_entries /\ lru # <<>>
        THEN evictIfNeeded_MutFront(Tail(lru), MapErase(map, lru[1].key))
        ELSE [lru |-> lru, map |-> map]

\* an evictIfNeeded_ that evicts as soon as the store is full
RECURSIVE evictIfNeeded_MutEarly(_, _)
evictIfNeeded_MutEarly(lru, map) ==
    IF Cardinality(DOMAIN map) >= cfg_.max_entries /\ lru # <<>>
        THEN LET victim == lru[Len(lru)].key
             IN  evictIfNeeded_MutEarly(SubSeq(lru, 1, Len(lru) - 1),
                                        MapErase(map, victim))
        ELSE [lru |-> lru, map |-> map]

\* LruMemoryStore::evictIfNeeded_
RECURSIVE evictIfNeeded_(_, _)
evictIfNeeded_(lru, map) ==
    IF Cardinality(DOMAIN map) > cfg_.max_entries /\ lru # <<>>
        THEN LET victim == lru[Len(lru)].key
             IN  evictIfNeeded_(SubSeq(lru, 1, Len(lru) - 1), MapErase(map, victim))
        ELSE [lru |-> lru, map |-> map]

\* LruMemoryStore::put
Lru_put(lru, map, key, entry) ==
    IF key \in DOMAIN map
        THEN touch_(lru, [map EXCEPT ![key].entry = entry], key)
        ELSE LET id == NewNode(lru)
                 l  == <<[id |-> id, key |-> key]>> \o lru
                 m  == [k \in DOMAIN map \cup {key} |->
                           IF k = key THEN [entry |-> entry, it |-> id] ELSE map[k]]
             IN  evictIfNeeded_(l, m)

\* a get that takes the entry it finds out of the store
Lru_getMutTake(lru, map, key) ==
    IF key \notin DOMAIN map
        THEN [lru |-> lru, map |-> map, ret |-> None]
        ELSE [lru |-> ListErase(lru, map[key].it), map |-> MapErase(map, key),
              ret |-> Some(map[key].entry)]

\* a get that, when it finds nothing, moves the back of the list to the front
Lru_getMutMiss(lru, map, key) ==
    IF key \notin DOMAIN map
        THEN [lru |-> IF lru = <<>> THEN lru
                      ELSE ListSpliceFront(lru, lru[Len(lru)].id),
              map |-> map, ret |-> None]
        ELSE LET t == touch_(lru, map, key)
             IN  [lru |-> t.lru, map |-> t.map, ret |-> Some(t.map[key].entry)]

\* a get that does not touch the entry it finds
Lru_getMut(lru, map, key) ==
    IF key \notin DOMAIN map
        THEN [lru |-> lru, map |-> map, ret |-> None]
        ELSE [lru |-> lru, map |-> map, ret |-> Some(map[key].entry)]

\* LruMemoryStore::get
Lru_get(lru, map, key) ==
    IF key \notin DOMAIN map
        THEN [lru |-> lru, map |-> map, ret |-> None]
        ELSE LET t == touch_(lru, map, key)
             IN  [lru |-> t.lru, map |-> t.map, ret |-> Some(t.map[key].entry)]

\* an erase that erases nothing
Lru_eraseMutNone(lru, map, key) == [lru |-> lru, map |-> map]

\* an erase that takes the key out of the map and leaves its list node
Lru_eraseMutMapOnly(lru, map, key) ==
    IF key \notin DOMAIN map
        THEN [lru |-> lru, map |-> map]
        ELSE [lru |-> lru, map |-> MapErase(map, key)]

\* LruMemoryStore::erase
Lru_erase(lru, map, key) ==
    IF key \notin DOMAIN map
        THEN [lru |-> lru, map |-> map]
        ELSE [lru |-> ListErase(lru, map[key].it), map |-> MapErase(map, key)]

\* LruMemoryStore::clear
Lru_clear(lru, map) == [lru |-> <<>>, map |-> <<>>]

\* the entries a map holds: what a predicate handed to eraseIf is asked about
EntriesOf(map) == {map[k].entry : k \in DOMAIN map}

\* an eraseIf that stops at the first entry it erases
Lru_eraseIfMutOne(lru, map, pred) ==
    LET all  == {k \in DOMAIN map : pred[map[k].entry]}
        gone == IF all = {} THEN {} ELSE {CHOOSE k \in all : TRUE}
    IN  [lru |-> SelectSeq(lru, LAMBDA n : \A k \in gone : map[k].it # n.id),
         map |-> [k \in DOMAIN map \ gone |-> map[k]],
         ret |-> Cardinality(gone)]

\* an eraseIf that erases from the map and leaves the list nodes
Lru_eraseIfMutList(lru, map, pred) ==
    LET gone == {k \in DOMAIN map : pred[map[k].entry]}
    IN  [lru |-> lru,
         map |-> [k \in DOMAIN map \ gone |-> map[k]],
         ret |-> Cardinality(gone)]

\* an eraseIf that counts the entries it visits
Lru_eraseIfMut(lru, map, pred) ==
    LET gone == {k \in DOMAIN map : pred[map[k].entry]}
    IN  [lru |-> SelectSeq(lru, LAMBDA n : \A k \in gone : map[k].it # n.id),
         map |-> [k \in DOMAIN map \ gone |-> map[k]],
         ret |-> Cardinality(DOMAIN map)]

\* LruMemoryStore::eraseIf: every map element the predicate holds of is
\* erased from the list (through its iterator) and from the map.  The
\* predicate is a function from the entries of the map to BOOLEAN.
Lru_eraseIf(lru, map, pred) ==
    LET gone == {k \in DOMAIN map : pred[map[k].entry]}
    IN  [lru |-> SelectSeq(lru, LAMBDA n : \A k \in gone : map[k].it # n.id),
         map |-> [k \in DOMAIN map \ gone |-> map[k]],
         ret |-> Cardinality(gone)]

(***************************************************************************)
(* The LRU store as a state machine                                        *)
(***************************************************************************)

\* the largest max_entries a store is configured with
MaxEntries == 3

LruKeys == {"x", "y", "z", "w"}

LruEntries == {CacheEntry(200, "a", <<>>, 0), CacheEntry(404, "b", <<>>, 0)}

\* The history kept of an operation: op.evicted is the keys a put removed,
\* op.afterHit the key of the successful get that came right before a put
\* ("" when none did), op.afterMiss the key of the get that found nothing
\* right before a put ("" when none did), op.old the entry a put found under its key (None
\* when the key was not present), op.before the history of uses before a get.

\* the history of uses after an operation that used key (a put, a
\* successful get) or used nothing (key = ""): the keys still in the map,
\* by their last use, oldest first
UsesAfter(key, map) ==
    SelectSeq(SelectSeq(uses, LAMBDA k : k # key) \o <<key>>,
              LAMBDA k : k \in DOMAIN map)

InitLru ==
    /\ cfg_ \in [max_entries : 0..MaxEntries]
    /\ lru_ = <<>>
    /\ map_ = <<>>
    /\ uses = <<>>
    /\ op = [kind |-> "start"]
    /\ IdleKey /\ IdlePolicy /\ IdleFile /\ IdleThr /\ IdleMem

LruPut ==
    \E key \in LruKeys, entry \in LruEntries :
        LET r == Lru_put(lru_, map_, key, entry)
        IN  /\ lru_' = r.lru
            /\ map_' = r.map
            /\ uses' = UsesAfter(key, r.map)
            /\ op' = [kind |-> "put", key |-> key, entry |-> entry,
                      evicted |-> DOMAIN map_ \ DOMAIN r.map,
                      afterHit |-> IF op.kind = "get" /\ op.ret.some
                                       THEN op.key ELSE "",
                      afterMiss |-> IF op.kind = "get" /\ ~op.ret.some
                                        THEN op.key ELSE "",
                      old |-> IF key \in DOMAIN map_
                                  THEN Some(map_[key].entry) ELSE None]
            /\ UNCHANGED <<cfg_, policy_, keyVars, fileVars, thrVars, mem_>>

LruGet ==
    \E key \in LruKeys :
        LET r == Lru_get(lru_, map_, key)
        IN  /\ lru_' = r.lru
            /\ map_' = r.map
            /\ uses' = UsesAfter(IF r.ret.some THEN key ELSE "", r.map)
            /\ op' = [kind |-> "get", key |-> key, ret |-> r.ret, before |-> uses]
            /\ UNCHANGED <<cfg_, policy_, keyVars, fileVars, thrVars, mem_>>

LruErase ==
    \E key \in LruKeys :
        LET r == Lru_erase(lru_, map_, key)
        IN  /\ lru_' = r.lru
            /\ map_' = r.map
            /\ uses' = UsesAfter("", r.map)
            /\ op' = [kind |-> "erase", key |-> key,
                      found |-> key \in DOMAIN map_]
            /\ UNCHANGED <<cfg_, policy_, keyVars, fileVars, thrVars, mem_>>

LruClear ==
    LET r == Lru_clear(lru_, map_)
    IN  /\ lru_' = r.lru
        /\ map_' = r.map
        /\ uses' = UsesAfter("", r.map)
        /\ op' = [kind |-> "clear"]
        /\ UNCHANGED <<cfg_, policy_, keyVars, fileVars, thrVars, mem_>>

\* eraseIf with the predicate "the entry's status is status"
LruEraseIf ==
    \E status \in {e.status : e \in LruEntries} :
        LET r == Lru_eraseIf(lru_, map_,
                             [e \in EntriesOf(map_) |-> e.status = status])
        IN  /\ lru_' = r.lru
            /\ map_' = r.map
            /\ uses' = UsesAfter("", r.map)
            /\ op' = [kind |-> "eraseIf", status |-> status, ret |-> r.ret]
            /\ UNCHANGED <<cfg_, policy_, keyVars, fileVars, thrVars, mem_>>

NextLru == LruPut \/ LruGet \/ LruErase \/ LruClear \/ LruEraseIf

SpecLru == InitLru /\ [][NextLru]_vars

(***************************************************************************)
(* The LRU store called from several threads.  A call waits for mu_        *)
(* (pc "lock"), runs the statements of its operation one at a time on      *)
(* lru_ and map_, and gives mu_ back when it returns.  hist.lru and        *)
(* hist.map are the store of a run without threads that executes the       *)
(* calls one after the other in the order in which they took mu_; a call's *)
(* expect and expectRemoved are what it returns there.                     *)
(***************************************************************************)

\* the number of calls the threads make in a run
MaxCalls == 4

Threads == {"t1", "t2"}

ThreadKeys == {"x", "y"}

\* the calls a thread can make
ThreadCalls ==
    {[kind |-> "put", key |-> k, entry |-> e] : k \in ThreadKeys, e \in LruEntries}
      \cup {[kind |-> "get", key |-> k] : k \in ThreadKeys}
      \cup {[kind |-> "erase", key |-> k] : k \in ThreadKeys}
      \cup {[kind |-> "clear"]}
      \cup {[kind |-> "eraseIf", status |-> e.status] : e \in LruEntries}

\* a lock_guard that does not wait for the mutex
lock_guardMut(mu) == TRUE

\* std::lock_guard<std::mutex> lk(mu_): the constructor returns when the
\* mutex is free
lock_guard(mu) == mu = "free"

\* the operation of call c as one step: the store it leaves and what it returns
Lru_apply(lru, map, c) ==
    CASE c.kind = "put" ->
           LET r == Lru_put(lru, map, c.key, c.entry)
           IN  [lru |-> r.lru, map |-> r.map, ret |-> None]
      [] c.kind = "get" -> Lru_get(lru, map, c.key)
      [] c.kind = "erase" ->
           LET r == Lru_erase(lru, map, c.key)
           IN  [lru |-> r.lru, map |-> r.map, ret |-> None]
      [] c.kind = "clear" ->
           LET r == Lru_clear(lru, map)
           IN  [lru |-> r.lru, map |-> r.map, ret |-> None]
      [] c.kind = "eraseIf" ->
           Lru_eraseIf(lru, map, [e \in EntriesOf(map) |-> e.status = c.status])

InitLruThreads ==
    /\ cfg_ \in [max_entries : {1, 2}]
    /\ lru_ = <<>>
    /\ map_ = <<>>
    /\ uses = <<>>
    /\ op = [kind |-> "start"]
    /\ mu_ = "free"
    /\ thr = [t \in Threads |-> [pc |-> "idle"]]
    /\ hist = [lru |-> <<>>, map |-> <<>>, calls |-> 0]
    /\ IdleKey /\ IdlePolicy /\ IdleFile /\ IdleMem

\* thread t is in the body of an operation
InBody(t) == thr[t].pc \notin {"idle", "lock"}

\* thread t goes on at pc with ret as the entry to return, if any; the
\* number an eraseIf returns is its local removed
ThreadGoes(t, pc, ret) == thr' = [thr EXCEPT ![t].pc = pc, ![t].ret = ret]

\* a thread calls an operation of the store
ThreadCall(t) ==
    /\ thr[t].pc = "idle"
    /\ hist.calls < MaxCalls
    /\ \E c \in ThreadCalls : thr' = [thr EXCEPT ![t] = [pc |-> "lock", call |-> c]]
    /\ hist' = [hist EXCEPT !.calls = @ + 1]
    /\ UNCHANGED <<lruVars, mu_, policy_, op, keyVars, fileVars, mem_>>

\* the first statement of every operation: the lock_guard takes mu_
ThreadLock(t) ==
    /\ thr[t].pc = "lock"
    /\ lock_guard(mu_)
    /\ mu_' = t
    /\ LET c == thr[t].call
           r == Lru_apply(hist.lru, hist.map, c)
       IN  /\ hist' = [hist EXCEPT !.lru = r.lru, !.map = r.map]
           /\ thr' = [thr EXCEPT ![t] =
                         [pc |-> c.kind, call |-> c, ret |-> None, removed |-> 0,
                          expect |-> IF c.kind = "eraseIf" THEN None ELSE r.ret,
                          expectRemoved |-> IF c.kind = "eraseIf" THEN r.ret ELSE 0,
                          todo |-> {}, cur |-> ""]]
    /\ UNCHANGED <<lruVars, policy_, op, keyVars, fileVars, mem_>>

\* what a step of an operation leaves alone besides lru_, map_ and thr
ThreadFrame == UNCHANGED <<cfg_, uses, mu_, hist, policy_, op, keyVars, fileVars, mem_>>

\* LruMemoryStore::put after the lock_guard, a statement at a time
LockedPut(t) ==
    LET c == thr[t].call
    IN  /\ ThreadFrame
        /\ \/ /\ thr[t].pc = "put" /\ c.key \in DOMAIN map_
              /\ map_' = [map_ EXCEPT ![c.key].entry = c.entry]
              /\ lru_' = lru_
              /\ ThreadGoes(t, "put_touch", None)
           \/ /\ thr[t].pc = "put" /\ c.key \notin DOMAIN map_
              /\ lru_' = <<[id |-> NewNode(lru_), key |-> c.key]>> \o lru_
              /\ map_' = map_
              /\ ThreadGoes(t, "put_emplace", None)
           \/ /\ thr[t].pc = "put_touch" /\ c.key \in DOMAIN map_
              /\ LET r == touch_(lru_, map_, c.key)
                 IN  lru_' = r.lru /\ map_' = r.map
              /\ ThreadGoes(t, "ret", None)
           \/ /\ thr[t].pc = "put_emplace" /\ lru_ # <<>>
              /\ map_' = [k \in DOMAIN map_ \cup {c.key} |->
                             IF k = c.key /\ k \notin DOMAIN map_
                                 THEN [entry |-> c.entry, it |-> lru_[1].id]
                                 ELSE map_[k]]
              /\ lru_' = lru_
              /\ ThreadGoes(t, "evict", None)
           \/ /\ thr[t].pc = "evict"
              /\ Cardinality(DOMAIN map_) > cfg_.max_entries /\ lru_ # <<>>
              /\ map_' = MapErase(map_, lru_[Len(lru_)].key)
              /\ lru_' = lru_
              /\ ThreadGoes(t, "evict_pop", None)
           \/ /\ thr[t].pc = "evict"
              /\ ~(Cardinality(DOMAIN map_) > cfg_.max_entries /\ lru_ # <<>>)
              /\ UNCHANGED <<lru_, map_>>
              /\ ThreadGoes(t, "ret", None)
           \/ /\ thr[t].pc = "evict_pop" /\ lru_ # <<>>
              /\ lru_' = SubSeq(lru_, 1, Len(lru_) - 1)
              /\ map_' = map_
              /\ ThreadGoes(t, "evict", None)

\* LruMemoryStore::get after the lock_guard
LockedGet(t) ==
    LET c == thr[t].call
    IN  /\ ThreadFrame
        /\ thr[t].pc = "get"
        /\ IF c.key \notin DOMAIN map_
               THEN /\ UNCHANGED <<lru_, map_>>
                    /\ ThreadGoes(t, "ret", None)
               ELSE LET r == touch_(lru_, map_, c.key)
                    IN  /\ lru_' = r.lru
                        /\ map_' = r.map
                        /\ ThreadGoes(t, "ret", Some(r.map[c.key].entry))

\* LruMemoryStore::erase after the lock_guard
LockedErase(t) ==
    LET c == thr[t].call
    IN  /\ ThreadFrame
        /\ \/ /\ thr[t].pc = "erase" /\ c.key \notin DOMAIN map_
              /\ UNCHANGED <<lru_, map_>>
              /\ ThreadGoes(t, "ret", None)
           \/ /\ thr[t].pc = "erase" /\ c.key \in DOMAIN map_
              /\ lru_' = ListErase(lru_, map_[c.key].it)
              /\ map_' = map_
              /\ ThreadGoes(t, "erase_map", None)
           \/ /\ thr[t].pc = "erase_map"
              /\ map_' = MapErase(map_, c.key)
              /\ lru_' = lru_
              /\ ThreadGoes(t, "ret", None)

\* LruMemoryStore::clear after the lock_guard
LockedClear(t) ==
    /\ ThreadFrame
    /\ \/ /\ thr[t].pc = "clear"
          /\ map_' = <<>>
          /\ lru_' = lru_
          /\ ThreadGoes(t, "clear_list", None)
       \/ /\ thr[t].pc = "clear_list"
          /\ lru_' = <<>>
          /\ map_' = map_
          /\ ThreadGoes(t, "ret", None)

\* LruMemoryStore::eraseIf after the lock_guard: the loop visits the map's
\* elements in an order that is not specified; todo is the keys still to
\* visit, cur the key whose list node has just been erased
LockedEraseIf(t) ==
    LET c == thr[t].call
    IN  /\ ThreadFrame
        /\ \/ /\ thr[t].pc = "eraseIf"
              /\ thr' = [thr EXCEPT ![t].pc = "eraseIf_scan", ![t].todo = DOMAIN map_]
              /\ UNCHANGED <<lru_, map_>>
           \/ /\ thr[t].pc = "eraseIf_scan"
              /\ \E k \in thr[t].todo \cap DOMAIN map_ :
                    IF map_[k].entry.status = c.status
                        THEN /\ lru_' = ListErase(lru_, map_[k].it)
                             /\ map_' = map_
                             /\ thr' = [thr EXCEPT ![t].pc = "eraseIf_map",
                                                   ![t].cur = k]
                        ELSE /\ UNCHANGED <<lru_, map_>>
                             /\ thr' = [thr EXCEPT ![t].todo = @ \ {k}]
           \/ /\ thr[t].pc = "eraseIf_map"
              /\ map_' = MapErase(map_, thr[t].cur)
              /\ lru_' = lru_
              /\ thr' = [thr EXCEPT ![t].pc = "eraseIf_scan",
                                    ![t].todo = @ \ {thr[t].cur},
                                    ![t].cur = "",
                                    ![t].removed = @ + 1]
           \/ /\ thr[t].pc = "eraseIf_scan"
              /\ thr[t].todo \cap DOMAIN map_ = {}
              /\ UNCHANGED <<lru_, map_>>
              /\ thr' = [thr EXCEPT ![t].pc = "ret", ![t].todo = {}]

\* the operation returns: the lock_guard is destroyed and gives mu_ back
ThreadReturn(t) ==
    /\ thr[t].pc = "ret"
    /\ mu_' = "free"
    /\ thr' = [thr EXCEPT ![t] = [pc |-> "idle"]]
    /\ UNCHANGED <<lruVars, hist, policy_, op, keyVars, fileVars, mem_>>

\* what thread t does once it has called
ThreadRuns(t) ==
    \/ ThreadLock(t)
    \/ LockedPut(t) \/ LockedGet(t) \/ LockedErase(t) \/ LockedClear(t)
    \/ LockedEraseIf(t)
    \/ ThreadReturn(t)

NextLruThreads == \E t \in Threads : ThreadCall(t) \/ ThreadRuns(t)

SpecLruThreads == InitLruThreads /\ [][NextLruThreads]_vars

\* every thread that has called goes on whenever it can: the scheduler runs
\* it, and the mutex goes to a waiting thread once no other thread asks for
\* it any more
SpecLruThreadsFair ==
    SpecLruThreads /\ \A t \in Threads : WF_vars(ThreadRuns(t))

(***************************************************************************)
(* CachePolicy and CacheContext                                            *)
(***************************************************************************)

\* struct CachePolicy
CachePolicy(ttl, err, off, allow_err, allow_off) ==
    [ttl_ms |-> ttl, stale_if_error_ms |-> err, stale_if_offline_ms |-> off,
     allow_stale_if_error |-> allow_err, allow_stale_if_offline |-> allow_off]

\* an is_fresh for which an entry of age ttl_ms is no longer fresh
is_freshMut(age_ms) == age_ms < policy_.ttl_ms

\* an is_fresh for which an entry is fresh only once it is as old as ttl_ms
is_freshMutLate(age_ms) == age_ms >= policy_.ttl_ms

\* an is_fresh that takes no entry from the future
is_freshMutNonNeg(age_ms) == age_ms >= 0 /\ age_ms <= policy_.ttl_ms

\* CachePolicy::is_fresh, of the facade's policy_
is_fresh(age_ms) == age_ms <= policy_.ttl_ms

\* an allow_stale_error that does not read its enabling flag
allow_stale_errorMut(age_ms) == age_ms <= policy_.stale_if_error_ms

\* CachePolicy::allow_stale_error
allow_stale_error(age_ms) ==
    policy_.allow_stale_if_error /\ age_ms <= policy_.stale_if_error_ms

\* CachePolicy::allow_stale_offline
allow_stale_offline(age_ms) ==
    policy_.allow_stale_if_offline /\ age_ms <= policy_.stale_if_offline_ms

\* struct CacheContext: every combination of the two flags
CacheContext == [offline : BOOLEAN, network_error : BOOLEAN]

(***************************************************************************)
(* HeaderUtil                                                              *)
(***************************************************************************)

\* a toLower that gives the name back as it is
toLowerMut(s) == s

\* HeaderUtil::toLower
toLower(s) == [i \in 1..Len(s) |-> tolower(s[i])]

\* the orders in which a loop can visit the names of a std::unordered_map:
\* the order is unspecified, so every arrangement of the names
Orders(names) ==
    {o \in [1..Cardinality(names) -> names] :
        \A i, j \in 1..Cardinality(names) : o[i] = o[j] => i = j}

\* HeaderUtil::normalizeInPlace, the loop: norm after the names of order
\* have been visited, norm[toLower(name)] = value for each one in turn
RECURSIVE normalizeLoop(_, _, _)
normalizeLoop(headers, order, norm) ==
    IF order = <<>> THEN norm
    ELSE LET name == Head(order)
             m    == toLower(name)
         IN  normalizeLoop(headers, Tail(order),
                           [x \in DOMAIN norm \cup {m} |->
                               IF x = m THEN headers[name] ELSE norm[x]])

\* a normalisation that leaves the headers as they are
normalizeInPlaceMutKeep(headers) == {headers}

\* HeaderUtil::normalizeInPlace: the maps it can leave in headers, one for
\* each order in which the loop can visit them.  Of the headers whose names
\* lowercase to the same name the last one visited wins.
normalizeInPlace(headers) ==
    {normalizeLoop(headers, o, <<>>) : o \in Orders(DOMAIN headers)}

(***************************************************************************)
(* Cache, the facade, over an LruMemoryStore                               *)
(***************************************************************************)

\* Cache::get
Cache_get(lru, map, key, now_ms, ctx) ==
    LET g == Lru_get(lru, map, key)
    IN  IF ~g.ret.some THEN g
        ELSE LET age == now_ms - g.ret.val.created_at_ms
                 use == IF is_fresh(age) THEN TRUE
                        ELSE IF ctx.offline /\ allow_stale_offline(age) THEN TRUE
                        ELSE IF ctx.network_error /\ allow_stale_error(age) THEN TRUE
                        ELSE FALSE
             IN  [g EXCEPT !.ret = IF use THEN g.ret ELSE None]

\* Cache::put: the stores it can leave, one for each outcome of the header
\* normalisation
Cache_put(lru, map, key, entry) ==
    {Lru_put(lru, map, key, [entry EXCEPT !.headers = h]) :
        h \in normalizeInPlace(entry.headers)}

\* Cache::prune, the age past which an entry is served under no context
MaxAge ==
    LET e == IF policy_.allow_stale_if_error
                 THEN policy_.stale_if_error_ms ELSE policy_.ttl_ms
        o == IF policy_.allow_stale_if_offline
                 THEN policy_.stale_if_offline_ms ELSE policy_.ttl_ms
        m == IF e > policy_.ttl_ms THEN e ELSE policy_.ttl_ms
    IN  IF o > m THEN o ELSE m

\* Cache::prune
Cache_prune(lru, map, now_ms) ==
    Lru_eraseIf(lru, map,
                [e \in EntriesOf(map) |-> now_ms - e.created_at_ms > MaxAge])

(***************************************************************************)
(* The facade as a state machine.  The actions take the entries and the    *)
(* times their callers hand in, so that one specification runs them on     *)
(* many policies and times and another on many header maps.                *)
(***************************************************************************)

\* the latest time of a get or a prune
MaxTime == 3

CacheKeys == {"x", "y"}

\* windows below MaxTime, so that every entry can outlive every window
Policies ==
    {CachePolicy(ttl, err, off, ae, ao) :
        ttl \in {0, 1}, err \in {0, 2}, off \in {1, 2}, ae \in BOOLEAN, ao \in BOOLEAN}

\* entries created at 0 and at 1, with and without a header
PolicyEntries ==
    {CacheEntry(200, "a", <<>>, 0), CacheEntry(200, "a", <<>>, 1),
     CacheEntry(404, "b", [n \in {<<65, 98>>} |-> <<118>>], 1)}

\* the policy a CachePolicy is constructed with
DefaultPolicy == CachePolicy(60000, 5 * 60000, 10 * 60000, TRUE, TRUE)

\* header names "Ab", "ab", "C-t" and values "v", "w"
HeaderEntries ==
    {CacheEntry(200, "a", <<>>, 0),
     CacheEntry(404, "b", [n \in {<<65, 98>>} |-> <<118>>], 0),
     CacheEntry(200, "b", [n \in {<<67, 45, 116>>, <<97, 98>>} |->
                              IF n = <<97, 98>> THEN <<118>> ELSE <<119>>], 0),
     CacheEntry(200, "a", [n \in {<<65, 98>>, <<97, 98>>} |->
                              IF n = <<65, 98>> THEN <<118>> ELSE <<119>>], 0)}

HeaderTimes == {0, 10 * 60000 + 1}

InitCache(policies) ==
    /\ policy_ \in policies
    /\ cfg_ = [max_entries |-> 2]
    /\ lru_ = <<>>
    /\ map_ = <<>>
    /\ uses = <<>>
    /\ op = [kind |-> "start"]
    /\ IdleKey /\ IdleFile /\ IdleThr /\ IdleMem

CachePut(entries) ==
    \E key \in CacheKeys, entry \in entries :
        \E r \in Cache_put(lru_, map_, key, entry) :
            /\ lru_' = r.lru
            /\ map_' = r.map
            /\ uses' = UsesAfter(key, r.map)
            /\ op' = [kind |-> "Cache.put", key |-> key, entry |-> entry]
            /\ UNCHANGED <<cfg_, policy_, keyVars, fileVars, thrVars, mem_>>

CacheGet(times) ==
    \E key \in CacheKeys, now_ms \in times, ctx \in CacheContext :
        LET r == Cache_get(lru_, map_, key, now_ms, ctx)
        IN  /\ lru_' = r.lru
            /\ map_' = r.map
            /\ uses' = UsesAfter(IF key \in DOMAIN map_ THEN key ELSE "", r.map)
            /\ op' = [kind |-> "Cache.get", key |-> key, now_ms |-> now_ms,
                      ctx |-> ctx, ret |-> r.ret]
            /\ UNCHANGED <<cfg_, policy_, keyVars, fileVars, thrVars, mem_>>

\* op.afterPrune is the time and the result of the prune that came right
\* before this one, None when the operation before was no prune
CachePrune(times) ==
    \E now_ms \in times :
        LET r == Cache_prune(lru_, map_, now_ms)
        IN  /\ lru_' = r.lru
            /\ map_' = r.map
            /\ uses' = UsesAfter("", r.map)
            /\ op' = [kind |-> "Cache.prune", now_ms |-> now_ms, ret |-> r.ret,
                      afterPrune |-> IF op.kind = "Cache.prune"
                                         THEN Some([now_ms |-> op.now_ms,
                                                    ret |-> op.ret])
                                         ELSE None]
            /\ UNCHANGED <<cfg_, policy_, keyVars, fileVars, thrVars, mem_>>

InitCachePolicies == InitCache(Policies)

NextCache ==
    \/ CachePut(PolicyEntries)
    \/ CacheGet(0..MaxTime)
    \/ CachePrune(0..MaxTime)

SpecCache == InitCachePolicies /\ [][NextCache]_vars

InitCacheHeaders == InitCache({DefaultPolicy})

NextCacheHeaders ==
    \/ CachePut(HeaderEntries)
    \/ CacheGet(HeaderTimes)
    \/ CachePrune(HeaderTimes)

SpecCacheHeaders == InitCacheHeaders /\ [][NextCacheHeaders]_vars

(***************************************************************************)
(* FileStore.  The backing file is absent, holds text that is no JSON      *)
(* document, or holds a JSON document: an object from cache keys to        *)
(* objects with the fields status, body, headers and created_at.  Several  *)
(* instances can be constructed on the same path.  Every operation takes   *)
(* an instance's loaded_ and map_ and the file and gives what it leaves of *)
(* them, with what it returns and whether it ended with an error.          *)
(***************************************************************************)

FileAbsent  == [kind |-> "absent"]
FileGarbage == [kind |-> "garbage"]
FileJson(doc) == [kind |-> "json", doc |-> doc]

\* the JSON object written for an entry
EntryToJson(e) ==
    [status |-> e.status, body |-> e.body, headers |-> e.headers,
     created_at |-> e.created_at_ms]

\* the entry read from a JSON object
EntryFromJson(j) == CacheEntry(j.status, j.body, j.headers, j.created_at)

\* an instance constructed as already loaded
FileStore_loaded_Mut == TRUE

\* FileStore::loaded_ as constructed
FileStore_loaded_ == FALSE

\* a load_ that reads the file on every call
load_MutReread(loaded, map, f) ==
    [loaded |-> TRUE,
     map |-> IF f.kind = "json"
                 THEN [k \in DOMAIN f.doc |-> EntryFromJson(f.doc[k])]
                 ELSE <<>>]

\* FileStore::load_: what it leaves in loaded_ and map_
load_(loaded, map, f) ==
    IF loaded THEN [loaded |-> loaded, map |-> map]
    ELSE [loaded |-> TRUE,
          map |-> IF f.kind = "json"
                      THEN [k \in DOMAIN f.doc |-> EntryFromJson(f.doc[k])]
                      ELSE <<>>]

\* FileStore::flush_: the outcomes of writing the whole map to the file.  The
\* write succeeds, or it fails and leaves the file as it was or broken.
flush_(map, f) ==
    {[file |-> FileJson([k \in DOMAIN map |-> EntryToJson(map[k])]), err |-> FALSE],
     [file |-> f, err |-> TRUE],
     [file |-> FileGarbage, err |-> TRUE]}

\* what a mutating operation leaves once its map is m: one outcome for each
\* outcome of the flush
Flushed(m, f, ret) ==
    {[loaded |-> TRUE, map |-> m, file |-> w.file, ret |-> ret, err |-> w.err] :
        w \in flush_(m, f)}

\* FileStore::put
File_put(loaded, map, f, key, entry) ==
    LET l == load_(loaded, map, f)
        m == [k \in DOMAIN l.map \cup {key} |-> IF k = key THEN entry ELSE l.map[k]]
    IN  Flushed(m, f, None)

\* FileStore::get
File_get(loaded, map, f, key) ==
    LET l == load_(loaded, map, f)
    IN  {[loaded |-> l.loaded, map |-> l.map, file |-> f, err |-> FALSE,
          ret |-> IF key \in DOMAIN l.map THEN Some(l.map[key]) ELSE None]}

\* FileStore::erase
File_erase(loaded, map, f, key) ==
    LET l == load_(loaded, map, f)
    IN  Flushed([k \in DOMAIN l.map \ {key} |-> l.map[k]], f, None)

\* FileStore::clear
File_clear(loaded, map, f) == Flushed(<<>>, f, None)

\* an eraseIf that leaves the file as it is
File_eraseIfMutNoFlush(loaded, map, f, pred) ==
    LET l    == load_(loaded, map, f)
        gone == {k \in DOMAIN l.map : pred[l.map[k]]}
    IN  {[loaded |-> l.loaded, map |-> [k \in DOMAIN l.map \ gone |-> l.map[k]],
          file |-> f, ret |-> Cardinality(gone), err |-> FALSE]}

\* an eraseIf that catches the error of its flush and returns the count
File_eraseIfMutSwallow(loaded, map, f, pred) ==
    LET l    == load_(loaded, map, f)
        gone == {k \in DOMAIN l.map : pred[l.map[k]]}
        m    == [k \in DOMAIN l.map \ gone |-> l.map[k]]
    IN  {[r EXCEPT !.err = FALSE] : r \in Flushed(m, f, Cardinality(gone))}

\* an eraseIf that ends with an error when the file cannot be loaded
File_eraseIfMutLoadFails(loaded, map, f, pred) ==
    LET l    == load_(loaded, map, f)
        gone == {k \in DOMAIN l.map : pred[l.map[k]]}
        m    == [k \in DOMAIN l.map \ gone |-> l.map[k]]
    IN  IF ~loaded /\ f.kind # "json"
            THEN {[loaded |-> loaded, map |-> map, file |-> f, ret |-> 0, err |-> TRUE]}
        ELSE IF Cardinality(gone) > 0
            THEN Flushed(m, f, Cardinality(gone))
            ELSE {[loaded |-> l.loaded, map |-> m, file |-> f,
                   ret |-> Cardinality(gone), err |-> FALSE]}

\* FileStore::eraseIf; the predicate is a function from the entries of the
\* loaded map to BOOLEAN
File_eraseIf(loaded, map, f, pred) ==
    LET l    == load_(loaded, map, f)
        gone == {k \in DOMAIN l.map : pred[l.map[k]]}
        m    == [k \in DOMAIN l.map \ gone |-> l.map[k]]
    IN  IF Cardinality(gone) > 0
            THEN Flushed(m, f, Cardinality(gone))
            ELSE {[loaded |-> l.loaded, map |-> m, file |-> f,
                   ret |-> Cardinality(gone), err |-> FALSE]}

(***************************************************************************)
(* The file store as a state machine: two instances on one path            *)
(***************************************************************************)

FileInstances == {"A", "B"}

FileKeys == {"x", "y"}

FileEntries ==
    {CacheEntry(200, "a", <<>>, 0),
     CacheEntry(404, "b", [n \in {<<97, 98>>} |-> <<118>>], 7)}

\* the file before any instance is constructed
InitialFiles ==
    {FileAbsent, FileGarbage}
      \cup {FileJson([k \in ks |-> EntryToJson(e)]) :
               ks \in SUBSET FileKeys, e \in FileEntries}

InitFile ==
    /\ file \in InitialFiles
    /\ fs_loaded_ = [i \in FileInstances |-> FileStore_loaded_]
    /\ fs_map_ = [i \in FileInstances |-> <<>>]
    /\ fs_called = {}
    /\ op = [kind |-> "start"]
    /\ IdleLru /\ IdlePolicy /\ IdleKey /\ IdleThr /\ IdleMem

\* instance i is left as outcome r says; op.first tells that the operation
\* was the first one of its instance
FileLeaves(i, r, what) ==
    /\ fs_loaded_' = [fs_loaded_ EXCEPT ![i] = r.loaded]
    /\ fs_map_' = [fs_map_ EXCEPT ![i] = r.map]
    /\ file' = r.file
    /\ fs_called' = fs_called \cup {i}
    /\ op' = what @@ [inst |-> i, ret |-> r.ret, err |-> r.err,
                      first |-> i \notin fs_called]
    /\ UNCHANGED <<lruVars, policy_, keyVars, thrVars, mem_>>

FilePut ==
    \E i \in FileInstances, key \in FileKeys, entry \in FileEntries :
        \E r \in File_put(fs_loaded_[i], fs_map_[i], file, key, entry) :
            FileLeaves(i, r, [kind |-> "File.put", key |-> key, entry |-> entry])

FileGet ==
    \E i \in FileInstances, key \in FileKeys :
        \E r \in File_get(fs_loaded_[i], fs_map_[i], file, key) :
            FileLeaves(i, r, [kind |-> "File.get", key |-> key])

FileErase ==
    \E i \in FileInstances, key \in FileKeys :
        \E r \in File_erase(fs_loaded_[i], fs_map_[i], file, key) :
            FileLeaves(i, r, [kind |-> "File.erase", key |-> key])

FileClear ==
    \E i \in FileInstances :
        \E r \in File_clear(fs_loaded_[i], fs_map_[i], file) :
            FileLeaves(i, r, [kind |-> "File.clear"])

\* eraseIf with the predicate "the entry's status is status"
FileEraseIf ==
    \E i \in FileInstances, status \in {e.status : e \in FileEntries} :
        LET l == load_(fs_loaded_[i], fs_map_[i], file)
        IN  \E r \in File_eraseIf(fs_loaded_[i], fs_map_[i], file,
                        [e \in {l.map[k] : k \in DOMAIN l.map} |-> e.status = status]) :
                FileLeaves(i, r, [kind |-> "File.eraseIf", status |-> status])

NextFile == FilePut \/ FileGet \/ FileErase \/ FileClear \/ FileEraseIf

SpecFile == InitFile /\ [][NextFile]_vars

(***************************************************************************)
(* One FileStore instance, "A", called from several threads.  Every        *)
(* operation takes mu_ and then calls load_, which returns at once when    *)
(* loaded_ is set and otherwise reads the file, fills map_ and sets        *)
(* loaded_; then the operation does its work on map_ and the file and      *)
(* returns.  hist.reads counts the times the file has been read.           *)
(***************************************************************************)

\* the calls a thread can make on the file store
FileThreadCalls ==
    {[kind |-> "File.put", key |-> k, entry |-> e] : k \in FileKeys, e \in FileEntries}
      \cup {[kind |-> "File.get", key |-> k] : k \in FileKeys}
      \cup {[kind |-> "File.erase", key |-> k] : k \in FileKeys}
      \cup {[kind |-> "File.clear"]}
      \cup {[kind |-> "File.eraseIf", status |-> e.status] : e \in FileEntries}

\* the outcomes of call c on a loaded instance
File_apply(loaded, map, f, c) ==
    CASE c.kind = "File.put" -> File_put(loaded, map, f, c.key, c.entry)
      [] c.kind = "File.get" -> File_get(loaded, map, f, c.key)
      [] c.kind = "File.erase" -> File_erase(loaded, map, f, c.key)
      [] c.kind = "File.clear" -> File_clear(loaded, map, f)
      [] c.kind = "File.eraseIf" ->
           File_eraseIf(loaded, map, f,
                        [e \in {map[k] : k \in DOMAIN map} |-> e.status = c.status])

InitFileThreads ==
    /\ file \in InitialFiles
    /\ fs_loaded_ = [i \in {"A"} |-> FileStore_loaded_]
    /\ fs_map_ = [i \in {"A"} |-> <<>>]
    /\ fs_called = {}
    /\ op = [kind |-> "start"]
    /\ mu_ = "free"
    /\ thr = [t \in Threads |-> [pc |-> "idle"]]
    /\ hist = [reads |-> 0, calls |-> 0]
    /\ IdleLru /\ IdlePolicy /\ IdleKey /\ IdleMem

\* a thread calls an operation of the file store
FileThreadCall(t) ==
    /\ thr[t].pc = "idle"
    /\ hist.calls < MaxCalls
    /\ \E c \in FileThreadCalls :
           thr' = [thr EXCEPT ![t] = [pc |-> "lock", call |-> c]]
    /\ hist' = [hist EXCEPT !.calls = @ + 1]
    /\ UNCHANGED <<lruVars, mu_, policy_, op, keyVars, fileVars, mem_>>

\* the first statement of every operation: the lock_guard takes mu_
FileThreadLock(t) ==
    /\ thr[t].pc = "lock"
    /\ lock_guard(mu_)
    /\ mu_' = t
    /\ thr' = [thr EXCEPT ![t].pc = "load_"]
    /\ UNCHANGED <<lruVars, hist, policy_, op, keyVars, fileVars, mem_>>

\* FileStore::load_, a statement at a time: the check of loaded_, the read
\* of the file, the assignment of map_ and loaded_
FileThreadLoad(t) ==
    /\ UNCHANGED <<lruVars, mu_, policy_, op, keyVars, file, fs_called, mem_>>
    /\ \/ /\ thr[t].pc = "load_" /\ fs_loaded_["A"]
          /\ thr' = [thr EXCEPT ![t].pc = "body"]
          /\ UNCHANGED <<hist, fs_loaded_, fs_map_>>
       \/ /\ thr[t].pc = "load_" /\ ~fs_loaded_["A"]
          /\ thr' = [thr EXCEPT ![t] = [pc |-> "load_set", call |-> thr[t].call,
                                        content |-> file]]
          /\ hist' = [hist EXCEPT !.reads = @ + 1]
          /\ UNCHANGED <<fs_loaded_, fs_map_>>
       \/ /\ thr[t].pc = "load_set"
          /\ LET l == load_(FALSE, fs_map_["A"], thr[t].content)
             IN  /\ fs_map_' = [fs_map_ EXCEPT !["A"] = l.map]
                 /\ fs_loaded_' = [fs_loaded_ EXCEPT !["A"] = l.loaded]
          /\ thr' = [thr EXCEPT ![t] = [pc |-> "body", call |-> thr[t].call]]
          /\ UNCHANGED hist

\* the operation's work after load_
FileThreadBody(t) ==
    /\ thr[t].pc = "body"
    /\ \E r \in File_apply(fs_loaded_["A"], fs_map_["A"], file, thr[t].call) :
           /\ fs_loaded_' = [fs_loaded_ EXCEPT !["A"] = r.loaded]
           /\ fs_map_' = [fs_map_ EXCEPT !["A"] = r.map]
           /\ file' = r.file
           /\ thr' = [thr EXCEPT ![t] = [pc |-> "ret", call |-> thr[t].call,
                                         err |-> r.err]]
    /\ UNCHANGED <<lruVars, mu_, hist, policy_, op, keyVars, fs_called, mem_>>

\* the operation returns, or ends with the error of its flush; either way
\* the lock_guard is destroyed and gives mu_ back
FileThreadReturn(t) ==
    /\ thr[t].pc = "ret"
    /\ mu_' = "free"
    /\ thr' = [thr EXCEPT ![t] = [pc |-> "idle"]]
    /\ fs_called' = fs_called \cup {"A"}
    /\ UNCHANGED <<lruVars, hist, policy_, op, keyVars, file, fs_loaded_, fs_map_, mem_>>

NextFileThreads ==
    \E t \in Threads :
        \/ FileThreadCall(t) \/ FileThreadLock(t) \/ FileThreadLoad(t)
        \/ FileThreadBody(t) \/ FileThreadReturn(t)

SpecFileThreads == InitFileThreads /\ [][NextFileThreads]_vars

(***************************************************************************)
(* Cache, the facade, over a FileStore, and the facade over either store.  *)
(* The facade holds a pointer to a CacheStore; the store behind it is an   *)
(* LruMemoryStore (no file instance exists) or the FileStore instance "A". *)
(***************************************************************************)

\* Cache::get over a FileStore
Cache_getFile(loaded, map, f, key, now_ms, ctx) ==
    {IF ~g.ret.some THEN g
     ELSE LET age == now_ms - g.ret.val.created_at_ms
              use == IF is_fresh(age) THEN TRUE
                     ELSE IF ctx.offline /\ allow_stale_offline(age) THEN TRUE
                     ELSE IF ctx.network_error /\ allow_stale_error(age) THEN TRUE
                     ELSE FALSE
          IN  [g EXCEPT !.ret = IF use THEN g.ret ELSE None] :
        g \in File_get(loaded, map, f, key)}

\* Cache::put over a FileStore
Cache_putFile(loaded, map, f, key, entry) ==
    UNION {File_put(loaded, map, f, key, [entry EXCEPT !.headers = h]) :
              h \in normalizeInPlace(entry.headers)}

\* Cache::prune over a FileStore
Cache_pruneFile(loaded, map, f, now_ms) ==
    LET l == load_(loaded, map, f)
    IN  File_eraseIf(loaded, map, f,
                     [e \in {l.map[k] : k \in DOMAIN l.map} |->
                         now_ms - e.created_at_ms > MaxAge])

\* one policy with the error window only, one with the offline window only
FilePolicies ==
    {CachePolicy(1, 2, 2, TRUE, FALSE), CachePolicy(0, 0, 1, FALSE, TRUE)}

\* the store behind the facade is the LruMemoryStore
StoreIsLru == fs_loaded_ = <<>>

InitCacheFile ==
    /\ policy_ \in FilePolicies
    /\ file \in InitialFiles
    /\ fs_loaded_ = [i \in FileInstances |-> FileStore_loaded_]
    /\ fs_map_ = [i \in FileInstances |-> <<>>]
    /\ fs_called = {}
    /\ op = [kind |-> "start"]
    /\ IdleLru /\ IdleKey /\ IdleThr /\ IdleMem

CacheFilePut ==
    /\ ~StoreIsLru
    /\ \E key \in CacheKeys, entry \in PolicyEntries :
        \E r \in Cache_putFile(fs_loaded_["A"], fs_map_["A"], file, key, entry) :
            FileLeaves("A", r, [kind |-> "Cache.put", key |-> key, entry |-> entry])

CacheFileGet ==
    /\ ~StoreIsLru
    /\ \E key \in CacheKeys, now_ms \in {0, MaxTime}, ctx \in CacheContext :
        \E r \in Cache_getFile(fs_loaded_["A"], fs_map_["A"], file, key, now_ms, ctx) :
            FileLeaves("A", r, [kind |-> "Cache.get", key |-> key,
                                now_ms |-> now_ms, ctx |-> ctx])

CacheFilePrune ==
    /\ ~StoreIsLru
    /\ \E now_ms \in {0, MaxTime} :
        \E r \in Cache_pruneFile(fs_loaded_["A"], fs_map_["A"], file, now_ms) :
            FileLeaves("A", r, [kind |-> "Cache.prune", now_ms |-> now_ms])

NextCacheFile == CacheFilePut \/ CacheFileGet \/ CacheFilePrune

InitCacheStores == InitCachePolicies \/ InitCacheFile

NextCacheStores ==
    \/ StoreIsLru /\ CachePut(PolicyEntries)
    \/ StoreIsLru /\ CacheGet(0..MaxTime)
    \/ StoreIsLru /\ CachePrune(0..MaxTime)
    \/ NextCacheFile

SpecCacheStores == InitCacheStores /\ [][NextCacheStores]_vars

(***************************************************************************)
(* MemoryStore, and Cache, the facade, over a MemoryStore.  mem_ is the    *)
(* store's map_, from keys to entries.                                     *)
(***************************************************************************)

\* a MemoryStore that also had the bulk removal
MemoryStoreOpsMut == {"put", "get", "erase", "clear", "eraseIf"}

\* MemoryStore: the operations the class has
MemoryStoreOps == {"put", "get", "erase", "clear"}

\* MemoryStore::put
Mem_put(map, key, entry) ==
    [map |-> [k \in DOMAIN map \cup {key} |-> IF k = key THEN entry ELSE map[k]]]

\* MemoryStore::get
Mem_get(map, key) ==
    [map |-> map, ret |-> IF key \in DOMAIN map THEN Some(map[key]) ELSE None]

\* MemoryStore::erase
Mem_erase(map, key) ==
    [map |-> [k \in DOMAIN map \ {key} |-> map[k]]]

\* MemoryStore::clear
Mem_clear(map) == [map |-> <<>>]

\* Cache::get over a MemoryStore
Cache_getMem(map, key, now_ms, ctx) ==
    LET g == Mem_get(map, key)
    IN  IF ~g.ret.some THEN g
        ELSE LET age == now_ms - g.ret.val.created_at_ms
                 use == IF is_fresh(age) THEN TRUE
                        ELSE IF ctx.offline /\ allow_stale_offline(age) THEN TRUE
                        ELSE IF ctx.network_error /\ allow_stale_error(age) THEN TRUE
                        ELSE FALSE
             IN  [g EXCEPT !.ret = IF use THEN g.ret ELSE None]

\* Cache::put over a MemoryStore
Cache_putMem(map, key, entry) ==
    {Mem_put(map, key, [entry EXCEPT !.headers = h]) :
        h \in normalizeInPlace(entry.headers)}

\* Cache::prune over a MemoryStore: the bulk removal where the store has it,
\* nothing removed where it has not
Cache_pruneMem(map, now_ms) ==
    IF "eraseIf" \in MemoryStoreOps
        THEN LET gone == {k \in DOMAIN map : now_ms - map[k].created_at_ms > MaxAge}
             IN  [map |-> [k \in DOMAIN map \ gone |-> map[k]],
                  ret |-> Cardinality(gone)]
        ELSE [map |-> map, ret |-> 0]

InitCacheMem ==
    /\ policy_ \in Policies
    /\ mem_ = <<>>
    /\ op = [kind |-> "start"]
    /\ IdleLru /\ IdleKey /\ IdleFile /\ IdleThr

\* what an operation of the facade leaves when the store is a MemoryStore
MemLeaves(r, o) ==
    /\ mem_' = r.map
    /\ op' = o
    /\ UNCHANGED <<lruVars, policy_, keyVars, fileVars, thrVars>>

CacheMemPut ==
    \E key \in CacheKeys, entry \in PolicyEntries :
        \E r \in Cache_putMem(mem_, key, entry) :
            MemLeaves(r, [kind |-> "Cache.put", key |-> key, entry |-> entry])

CacheMemGet ==
    \E key \in CacheKeys, now_ms \in 0..MaxTime, ctx \in CacheContext :
        LET r == Cache_getMem(mem_, key, now_ms, ctx)
        IN  MemLeaves(r, [kind |-> "Cache.get", key |-> key, now_ms |-> now_ms,
                          ctx |-> ctx, ret |-> r.ret])

CacheMemPrune ==
    \E now_ms \in 0..MaxTime :
        LET r == Cache_pruneMem(mem_, now_ms)
        IN  MemLeaves(r, [kind |-> "Cache.prune", now_ms |-> now_ms, ret |-> r.ret])

NextCacheMem == CacheMemPut \/ CacheMemGet \/ CacheMemPrune

SpecCacheMem == InitCacheMem /\ [][NextCacheMem]_vars

(***************************************************************************)
(* The requests the key builder is run on                                  *)
(***************************************************************************)

\* the most '&'-separated parameters of a query
MaxParams == 3

\* "get", "GET", "Put"
Methods == {<<103, 101, 116>>, <<71, 69, 84>>, <<80, 117, 116>>}

\* "/p"
Paths == {<<47, 112>>}

\* the parameters of a query: "", "a", "a=", "a=1", "b=2"
Params == {<<>>, <<97>>, <<97, 61>>, <<97, 61, 49>>, <<98, 61, 50>>}

\* the parameters joined by '&'
RECURSIVE JoinParams(_)
JoinParams(ps) ==
    IF ps = <<>> THEN <<>>
    ELSE IF Len(ps) = 1 THEN ps[1]
    ELSE ps[1] \o <<38>> \o JoinParams(Tail(ps))

\* the '&'-separated parameters of a query string, empty ones included
RECURSIVE SplitParams(_)
SplitParams(q) ==
    LET amp == Find(q, 38, 1)
    IN  IF amp = 0 THEN <<q>>
        ELSE <<SubSeq(q, 1, amp - 1)>> \o SplitParams(SubSeq(q, amp + 1, Len(q)))

Queries ==
    {JoinParams(ps) : ps \in UNION {[1..n -> Params] : n \in 0..MaxParams}}

\* header names "Ab", "ab", "AB"; header values " v", "w"
HeaderMaps ==
    { <<>>,
      [n \in {<<65, 98>>} |-> <<32, 118>>],
      [n \in {<<97, 98>>} |-> <<32, 118>>],
      [n \in {<<97, 98>>} |-> <<119>>],
      [n \in {<<65, 98>>, <<97, 98>>} |-> IF n = <<65, 98>> THEN <<32, 118>> ELSE <<119>>] }

Includes == {<<>>, <<<<65, 98>>>>, <<<<97, 98>>>>, <<<<65, 66>>>>}

Requests ==
    [method : Methods, path : Paths, query : Queries,
     headers : HeaderMaps, include : Includes]

\* the queries whose parameters are those of q in another order
Reorderings(q) ==
    LET ps == SplitParams(q)
        n  == Len(ps)
    IN  {JoinParams([i \in 1..n |-> ps[f[i]]]) :
            f \in {g \in [1..n -> 1..n] : \A i, j \in 1..n : g[i] = g[j] => i = j}}

\* two header maps that differ only in the letter case of their names
SameHeadersButCase(h1, h2) ==
    \E f \in [DOMAIN h1 -> DOMAIN h2] :
        /\ \A n1, n2 \in DOMAIN h1 : f[n1] = f[n2] => n1 = n2
        /\ \A m \in DOMAIN h2 : \E n \in DOMAIN h1 : f[n] = m
        /\ \A n \in DOMAIN h1 : lower_(f[n]) = lower_(n) /\ h2[f[n]] = h1[n]

\* two inclusion lists that differ only in the letter case of their names
SameIncludeButCase(l1, l2) ==
    /\ Len(l1) = Len(l2)
    /\ \A i \in 1..Len(l1) : lower_(l1[i]) = lower_(l2[i])

(***************************************************************************)
(* The key builder as a state machine: a request is drawn, its key built,  *)
(* then one variation of the request has its key built.                    *)
(***************************************************************************)

InitKey ==
    /\ reqA \in Requests
    /\ keyA = None
    /\ reqB = <<>>
    /\ keyB = None
    /\ op = [kind |-> "start"]
    /\ IdleLru /\ IdlePolicy /\ IdleFile /\ IdleThr /\ IdleMem

\* CacheKey::fromRequest on the request
KeyBuild ==
    /\ ~keyA.some
    /\ keyA' = Some(KeyOf(reqA))
    /\ op' = [kind |-> "fromRequest"]
    /\ UNCHANGED <<reqA, reqB, keyB, lruVars, policy_, fileVars, thrVars, mem_>>

\* fromRequest on the request with its method in another letter case
KeyVaryMethod ==
    /\ keyA.some /\ ~keyB.some
    /\ \E m \in Methods :
        /\ lower_(m) = lower_(reqA.method)
        /\ reqB' = [reqA EXCEPT !.method = m]
    /\ keyB' = Some(KeyOf(reqB'))
    /\ op' = [kind |-> "varyMethod"]
    /\ UNCHANGED <<reqA, keyA, lruVars, policy_, fileVars, thrVars, mem_>>

\* fromRequest on the request with its query parameters in another order
KeyVaryQuery ==
    /\ keyA.some /\ ~keyB.some
    /\ \E q \in Reorderings(reqA.query) : reqB' = [reqA EXCEPT !.query = q]
    /\ keyB' = Some(KeyOf(reqB'))
    /\ op' = [kind |-> "varyQuery"]
    /\ UNCHANGED <<reqA, keyA, lruVars, policy_, fileVars, thrVars, mem_>>

\* fromRequest on the request with header names in another letter case, in
\* the header map or in the inclusion list
KeyVaryHeaderCase ==
    /\ keyA.some /\ ~keyB.some
    /\ \E h \in HeaderMaps, l \in Includes :
        /\ SameHeadersButCase(reqA.headers, h)
        /\ SameIncludeButCase(reqA.include, l)
        /\ reqB' = [reqA EXCEPT !.headers = h, !.include = l]
    /\ keyB' = Some(KeyOf(reqB'))
    /\ op' = [kind |-> "varyHeaderCase"]
    /\ UNCHANGED <<reqA, keyA, lruVars, policy_, fileVars, thrVars, mem_>>

NextKey == KeyBuild \/ KeyVaryMethod \/ KeyVaryQuery \/ KeyVaryHeaderCase

SpecKey == InitKey /\ [][NextKey]_vars

(***************************************************************************)
(* Claims about CacheKey, under SpecKey                                    *)
(***************************************************************************)

\* C8: fromRequest is invariant under reordering of the query parameters:
\* two requests whose queries hold the same '&'-separated parameters in
\* another order, and that are otherwise equal, get the same key.
C8_QueryOrderInvariant ==
    op.kind = "varyQuery" => keyA = keyB

\* C9: two requests that differ only in the letter case of header names, in
\* the header map or in the inclusion list, get the same key.
C9_HeaderCaseInvariant ==
    op.kind = "varyHeaderCase" => keyA = keyB

\* C10: fromRequest is invariant under the letter case of the method: two
\* requests whose methods differ only in case, and that are otherwise
\* equal, get the same key.
C10_MethodCaseInvariant ==
    op.kind = "varyMethod" => keyA = keyB

\* C10 happens: keys were built for "get" and for "GET", with a query and
\* an inclusion list
C10_Witness ==
    /\ op.kind = "varyMethod"
    /\ reqA.method = <<103, 101, 116>>
    /\ reqB.method = <<71, 69, 84>>
    /\ reqA.query # <<>>
    /\ reqA.include # <<>>
    /\ keyA.some /\ keyB.some

(***************************************************************************)
(* Claims about LruMemoryStore, under SpecLru                              *)
(***************************************************************************)

\* C3: after any sequence of put, get, erase, clear and eraseIf, the store
\* holds at most max_entries entries, for every capacity from 0 on.
C3_SizeWithinCapacity ==
    Cardinality(DOMAIN map_) <= cfg_.max_entries

\* C3 happens: a put into a full store of capacity 1 has evicted a key
C3_Witness ==
    /\ cfg_.max_entries = 1
    /\ op.kind = "put"
    /\ op.evicted # {}
    /\ Cardinality(DOMAIN map_) = 1

\* C4: a put of a key that is not present into a store holding max_entries
\* entries (max_entries >= 1) evicts exactly one key, the one whose last put
\* or successful get is the oldest; every other key stays retrievable with
\* its value, and the new key is retrievable with the value put.
C4_PutEvictsLeastRecentlyUsed ==
    [][ ( /\ op'.kind = "put"
          /\ op'.key \notin DOMAIN map_
          /\ cfg_.max_entries >= 1
          /\ Cardinality(DOMAIN map_) = cfg_.max_entries )
        => /\ uses # <<>>
           /\ DOMAIN map_ \ DOMAIN map_' = {Head(uses)}
           /\ Lru_get(lru_', map_', Head(uses)).ret = None
           /\ \A k \in DOMAIN map_ \ {Head(uses)} :
                  Lru_get(lru_', map_', k).ret = Some(map_[k].entry)
           /\ Lru_get(lru_', map_', op'.key).ret = Some(op'.entry) ]_vars

\* C4 happens: capacity 2, put(x); put(y); put(z) has evicted x and kept y, z
C4_Witness ==
    /\ cfg_.max_entries = 2
    /\ op.kind = "put" /\ op.key = "z"
    /\ op.evicted = {"x"}
    /\ uses = <<"y", "z">>
    /\ DOMAIN map_ = {"y", "z"}

\* C5: when a get(k) hits and the next operation puts a new key into the
\* full store (max_entries >= 2), k is not evicted and keeps its value; the
\* key evicted is the least recently used one before the get, k left out.
C5_GetPromotes ==
    [][ ( /\ op.kind = "get" /\ op.ret.some
          /\ op'.kind = "put"
          /\ op'.key \notin DOMAIN map_
          /\ cfg_.max_entries >= 2
          /\ Cardinality(DOMAIN map_) = cfg_.max_entries )
        => LET others == SelectSeq(op.before, LAMBDA k : k # op.key)
           IN  /\ others # <<>>
               /\ DOMAIN map_ \ DOMAIN map_' = {Head(others)}
               /\ op.key \in DOMAIN map_'
               /\ Lru_get(lru_', map_', op.key).ret = op.ret ]_vars

\* C5 happens: capacity 2 holding y and z, get(y) then put(w) has evicted z
C5_Witness ==
    /\ cfg_.max_entries = 2
    /\ op.kind = "put" /\ op.key = "w"
    /\ op.afterHit = "y"
    /\ op.evicted = {"z"}
    /\ DOMAIN map_ = {"y", "w"}

\* C17: after any sequence of put, get, erase, clear and eraseIf the keys
\* of the list are exactly the keys of the map, each in one list node, and
\* the iterator kept with a key in the map points to the one list node
\* that holds this key.
C17_ListMatchesMap ==
    /\ {lru_[j].key : j \in 1..Len(lru_)} = DOMAIN map_
    /\ \A i, j \in 1..Len(lru_) :
           (lru_[i].key = lru_[j].key \/ lru_[i].id = lru_[j].id) => i = j
    /\ \A k \in DOMAIN map_ :
           \E j \in 1..Len(lru_) : lru_[j].id = map_[k].it /\ lru_[j].key = k

\* C17 happens: the list has been reordered by a use of a key already
\* stored, then an eraseIf has removed a node; two keys are left, the one
\* at the front in a node allocated before the other's
C17_Witness ==
    /\ op.kind = "eraseIf"
    /\ op.ret = 1
    /\ Len(lru_) = 2
    /\ uses = <<lru_[2].key, lru_[1].key>>
    /\ map_[lru_[1].key].it < map_[lru_[2].key].it

\* the keys of a list, front first
KeysOf(lru) == [j \in 1..Len(lru) |-> lru[j].key]

\* C18: put(k, e) on a key that is present leaves e under k, k at the front
\* of the list, the same set of keys with no key evicted, every other key
\* with its entry, and the other keys in the order they had, at every
\* fill of the store, the full one included.
C18_PutPresentKey ==
    [][ ( op'.kind = "put" /\ op'.key \in DOMAIN map_ )
        => /\ map_'[op'.key].entry = op'.entry
           /\ lru_' # <<>> /\ lru_'[1].key = op'.key
           /\ DOMAIN map_' = DOMAIN map_
           /\ op'.evicted = {}
           /\ \A k \in DOMAIN map_ \ {op'.key} : map_'[k].entry = map_[k].entry
           /\ SelectSeq(KeysOf(lru_'), LAMBDA k : k # op'.key)
                  = SelectSeq(KeysOf(lru_), LAMBDA k : k # op'.key) ]_vars

\* C18 happens: in a full store of three keys, a put has replaced the entry
\* of a key by another one and the key is now at the front, the other two
\* behind it
C18_Witness ==
    /\ op.kind = "put"
    /\ op.old.some /\ op.old.val # op.entry
    /\ cfg_.max_entries = 3
    /\ Len(lru_) = 3
    /\ lru_[1].key = op.key
    /\ uses = <<lru_[3].key, lru_[2].key, op.key>>
    /\ map_[op.key].entry = op.entry

\* C19: a get of a key that is not present returns nothing and leaves the
\* map and the list as they are; when the next operation puts a new key
\* into the full store, the key evicted is the least recently used one of
\* before the get.
C19_MissLeavesRecency ==
    [][ /\ ( op'.kind = "get" /\ op'.key \notin DOMAIN map_ )
            => /\ op'.ret = None
               /\ map_' = map_
               /\ lru_' = lru_
        /\ ( /\ op.kind = "get" /\ ~op.ret.some
              /\ op'.kind = "put"
              /\ op'.key \notin DOMAIN map_
              /\ cfg_.max_entries >= 1
              /\ Cardinality(DOMAIN map_) = cfg_.max_entries )
            => /\ op.before # <<>>
               /\ op'.evicted = {Head(op.before)} ]_vars

\* C19 happens: capacity 2 holding x and y, put in this order; get(z) has
\* found nothing and the put(z) right after it has evicted x
C19_Witness ==
    /\ cfg_.max_entries = 2
    /\ op.kind = "put" /\ op.key = "z"
    /\ op.afterMiss = "z"
    /\ op.evicted = {"x"}
    /\ uses = <<"y", "z">>

\* C20: eraseIf(pred) takes out of the map and out of the list the keys
\* whose entries pred holds of and no other key, returns how many they
\* are, and leaves every other key with its entry and the keys of the list
\* in the order they had.
C20_EraseIfExact ==
    [][ op'.kind = "eraseIf"
        => LET gone == {k \in DOMAIN map_ : map_[k].entry.status = op'.status}
           IN  /\ DOMAIN map_' = DOMAIN map_ \ gone
               /\ \A k \in DOMAIN map_ \ gone : map_'[k].entry = map_[k].entry
               /\ op'.ret = Cardinality(gone)
               /\ KeysOf(lru_') = SelectSeq(KeysOf(lru_), LAMBDA k : k \notin gone) ]_vars

\* C20 happens: an eraseIf has removed one key of three, and the two it
\* kept, whose entries the predicate does not hold of, have been used in
\* the order the list has them in
C20_Witness ==
    /\ op.kind = "eraseIf"
    /\ op.ret = 1
    /\ Len(lru_) = 2
    /\ uses = <<lru_[2].key, lru_[1].key>>
    /\ \A k \in DOMAIN map_ : map_[k].entry.status # op.status
    /\ lru_[1].key = "x" /\ lru_[2].key = "w"

\* C21: erase(k) of a key that is present takes k out of the map and out
\* of the list and leaves every other key with its entry and the other
\* keys of the list in the order they had; erase(k) of a key that is not
\* present leaves map and list as they are.  After it a get(k) finds
\* nothing, and no operation but put(k) brings a key k that is not present
\* into the map, so get(k) finds nothing until the next put(k).
C21_EraseFrame ==
    [][ /\ op'.kind = "erase"
            => /\ DOMAIN map_' = DOMAIN map_ \ {op'.key}
               /\ \A k \in DOMAIN map_' : map_'[k].entry = map_[k].entry
               /\ KeysOf(lru_') = SelectSeq(KeysOf(lru_), LAMBDA k : k # op'.key)
               /\ op'.key \notin DOMAIN map_ => map_' = map_ /\ lru_' = lru_
               /\ Lru_get(lru_', map_', op'.key).ret = None
        /\ \A k \in LruKeys \ DOMAIN map_ :
               ~(op'.kind = "put" /\ op'.key = k)
                   => /\ k \notin DOMAIN map_'
                      /\ (op'.kind = "get" /\ op'.key = k) => op'.ret = None ]_vars

\* C21 happens: an erase has removed a key that was present from a store
\* of three and the two keys left are in the list in the order of their
\* last uses
C21_Witness ==
    /\ op.kind = "erase"
    /\ op.found
    /\ op.key \notin DOMAIN map_
    /\ Len(lru_) = 2
    /\ uses = <<lru_[2].key, lru_[1].key>>

\* the calls made so far have left the store and returned what a run
\* without threads leaves and returns that executes them in the order in
\* which they took mu_; at most one thread is in the body of an operation,
\* the one that holds mu_
LockOrderRun ==
    /\ \A t, u \in Threads : (InBody(t) /\ InBody(u)) => t = u
    /\ \A t \in Threads : InBody(t) => mu_ = t
    /\ (\A t \in Threads : ~InBody(t)) => (lru_ = hist.lru /\ map_ = hist.map)
    /\ \A t \in Threads :
           thr[t].pc = "ret"
               => /\ thr[t].ret = thr[t].expect
                  /\ thr[t].removed = thr[t].expectRemoved
                  /\ lru_ = hist.lru
                  /\ map_ = hist.map

Servable(age_ms, ctx) ==
    \/ age_ms <= policy_.ttl_ms
    \/ /\ ctx.offline
       /\ policy_.allow_stale_if_offline
       /\ age_ms <= policy_.stale_if_offline_ms
    \/ /\ ctx.network_error
       /\ policy_.allow_stale_if_error
       /\ age_ms <= policy_.stale_if_error_ms

\* C1: get(key, now, ctx) returns the stored entry exactly when the key is
\* present and, with age = now - created_at, the entry is fresh, or ctx is
\* offline and the age is within the enabled offline window, or ctx is
\* network_error and the age is within the enabled error window; otherwise
\* it returns empty.  For all four combinations of the two flags.
C1_GetServesIffUsable ==
    [][ op'.kind = "Cache.get"
        => op'.ret =
             IF /\ op'.key \in DOMAIN map_
                /\ Servable(op'.now_ms - map_[op'.key].entry.created_at_ms, op'.ctx)
                 THEN Some(map_[op'.key].entry)
                 ELSE None ]_vars

\* C1 happens: with both flags set, a get has served an entry past its TTL
C1_Witness ==
    /\ op.kind = "Cache.get"
    /\ op.ctx.offline /\ op.ctx.network_error
    /\ op.ret.some
    /\ op.now_ms - op.ret.val.created_at_ms > policy_.ttl_ms

\* C2: prune(now) removes exactly the entries that get would serve under no
\* context at time now, keeps every other entry as it is, and returns the
\* number of entries it removed.
C2_PruneRemovesUnusable ==
    [][ op'.kind = "Cache.prune"
        => LET kept == {k \in DOMAIN map_ :
                          \E ctx \in CacheContext :
                              Cache_get(lru_, map_, k, op'.now_ms, ctx).ret.some}
           IN  /\ DOMAIN map_' = kept
               /\ \A k \in kept : map_'[k].entry = map_[k].entry
               /\ op'.ret = Cardinality(DOMAIN map_ \ kept) ]_vars

\* C2 happens: a prune has removed one of the two entries and kept the other
C2_Witness ==
    /\ op.kind = "Cache.prune"
    /\ op.ret = 1
    /\ Cardinality(DOMAIN map_) = 1

\* C7: every entry a facade get returns has only lowercase header names; a
\* facade put stores status, body and created_at as given, one header for
\* each lowercased name, with the value of a header given under that name.
C7_HeaderNamesLowercase ==
    [][ /\ ( op'.kind = "Cache.get" /\ op'.ret.some )
            => \A n \in DOMAIN op'.ret.val.headers :
                   \A i \in 1..Len(n) : ~(n[i] >= 65 /\ n[i] <= 90)
        /\ op'.kind = "Cache.put"
            => LET given  == op'.entry
                   stored == Cache_get(lru_', map_', op'.key,
                                       given.created_at_ms, [offline |-> FALSE,
                                                             network_error |-> FALSE]).ret
               IN  /\ stored.some
                   /\ stored.val.status = given.status
                   /\ stored.val.body = given.body
                   /\ stored.val.created_at_ms = given.created_at_ms
                   /\ DOMAIN stored.val.headers =
                          {[i \in 1..Len(n) |-> tolower(n[i])] : n \in DOMAIN given.headers}
                   /\ \A m \in DOMAIN stored.val.headers :
                          \E n \in DOMAIN given.headers :
                              /\ [i \in 1..Len(n) |-> tolower(n[i])] = m
                              /\ stored.val.headers[m] = given.headers[n] ]_vars

\* C7 happens: an entry put with the header "Ab" has come back from get with
\* the header "ab"
C7_Witness ==
    /\ op.kind = "Cache.get"
    /\ op.ret.some
    /\ op.ret.val.status = 404
    /\ DOMAIN op.ret.val.headers = {<<97, 98>>}

\* C11: for every policy and every age, is_fresh(a) holds exactly when
\* a <= ttl_ms (an entry of age ttl_ms is fresh), allow_stale_error(a) exactly
\* when allow_stale_if_error is set and a <= stale_if_error_ms, and
\* allow_stale_offline(a) exactly when allow_stale_if_offline is set and
\* a <= stale_if_offline_ms; a stale predicate whose flag is not set is false
\* for every age.
C11_PolicyPredicates ==
    \A a \in -1..MaxTime :
        /\ is_fresh(a) <=> ~(a > policy_.ttl_ms)
        /\ a = policy_.ttl_ms => is_fresh(a)
        /\ allow_stale_error(a)
              <=> (policy_.allow_stale_if_error /\ ~(a > policy_.stale_if_error_ms))
        /\ allow_stale_offline(a)
              <=> (policy_.allow_stale_if_offline /\ ~(a > policy_.stale_if_offline_ms))
        /\ ~policy_.allow_stale_if_error => ~allow_stale_error(a)
        /\ ~policy_.allow_stale_if_offline => ~allow_stale_offline(a)

\* C11 happens: under a policy with no stale-on-error, a get after a network
\* error has refused an entry past its TTL and within the error window
C11_Witness ==
    /\ ~policy_.allow_stale_if_error
    /\ op.kind = "Cache.get"
    /\ op.ctx.network_error /\ ~op.ctx.offline
    /\ op.key \in DOMAIN map_
    /\ op.now_ms - map_[op.key].entry.created_at_ms > policy_.ttl_ms
    /\ op.now_ms - map_[op.key].entry.created_at_ms <= policy_.stale_if_error_ms
    /\ ~op.ret.some

\* C12: a prune(now) that comes right after a prune(now) with the same now
\* removes nothing and returns 0.
C12_PruneIdempotent ==
    [][ ( /\ op.kind = "Cache.prune"
          /\ op'.kind = "Cache.prune"
          /\ op'.now_ms = op.now_ms )
        => /\ op'.ret = 0
           /\ map_' = map_
           /\ lru_' = lru_ ]_vars

\* C12 happens: a prune has removed an entry and kept another, and the prune
\* right after it, at the same time, has returned 0
C12_Witness ==
    /\ op.kind = "Cache.prune"
    /\ op.afterPrune.some
    /\ op.afterPrune.val.now_ms = op.now_ms
    /\ op.afterPrune.val.ret > 0
    /\ op.ret = 0
    /\ map_ # <<>>

\* what a file store holds: its map once loaded, before that what load_
\* would read from the file
StoredIn(loaded, map, f) == load_(loaded, map, f).map

\* C16: a facade get, whether it returns the entry, finds no entry or finds
\* an entry it may not serve, leaves every key of the store with the entry
\* it had and adds and removes no key; over a file store it leaves the
\* backing file as it is.
C16_GetReadOnly ==
    [][ op'.kind = "Cache.get"
        => /\ DOMAIN map_' = DOMAIN map_
           /\ \A k \in DOMAIN map_ : map_'[k].entry = map_[k].entry
           /\ file' = file
           /\ \A i \in DOMAIN fs_map_ :
                  StoredIn(fs_loaded_'[i], fs_map_'[i], file')
                      = StoredIn(fs_loaded_[i], fs_map_[i], file) ]_vars

\* C16 happens: over a file store, a get has refused an entry past its
\* windows; the entry is still in the map and in the file
C16_Witness ==
    /\ ~StoreIsLru
    /\ op.kind = "Cache.get"
    /\ ~op.ret.some
    /\ op.key \in DOMAIN fs_map_["A"]
    /\ file.kind = "json"
    /\ op.key \in DOMAIN file.doc

(***************************************************************************)
(* Claims about FileStore, under SpecFile                                  *)
(***************************************************************************)

FileMutating == {"File.put", "File.erase", "File.clear", "File.eraseIf"}

\* the file holds the document flush_ writes for map m
FileHolds(m) == file = FileJson([k \in DOMAIN m |-> EntryToJson(m[k])])

\* C13: after every put, erase, clear and eraseIf that has returned without
\* error, the backing file holds the whole in-memory map of the instance.
C13_FlushOnEveryCall ==
    (op.kind \in FileMutating /\ ~op.err) => FileHolds(fs_map_[op.inst])

\* C13, amended: after every put, erase and clear, and after every eraseIf
\* that has removed at least one entry, when the call has returned without
\* error, the backing file holds the whole in-memory map of the instance.
C13_FlushOnMutation ==
    ( /\ op.kind \in FileMutating
      /\ ~op.err
      /\ op.kind = "File.eraseIf" => op.ret > 0 )
    => FileHolds(fs_map_[op.inst])

\* C13 happens: an eraseIf has removed one of two entries and the file
\* holds the one it kept
C13_Witness ==
    /\ op.kind = "File.eraseIf"
    /\ ~op.err
    /\ op.ret = 1
    /\ Cardinality(DOMAIN fs_map_[op.inst]) = 1
    /\ FileHolds(fs_map_[op.inst])

\* C14: a put, erase, clear or eraseIf whose flush fails ends with an error:
\* a call that ends without error has left in the file the document of the
\* whole map, unless it is an eraseIf that removed nothing and left the file
\* alone; and a call that ends with an error has not written the map in a
\* second attempt: the file is as it was before the call, or broken.
C14_FlushFailureSurfaced ==
    [][ op'.kind \in FileMutating
        => LET m == fs_map_'[op'.inst]
           IN  /\ ~op'.err
                    => \/ file' = FileJson([k \in DOMAIN m |-> EntryToJson(m[k])])
                       \/ op'.kind = "File.eraseIf" /\ op'.ret = 0 /\ file' = file
               /\ op'.err => file' \in {file, FileGarbage} ]_vars

\* C14 happens: a put has ended with an error, the file still holds the
\* document of before and the instance's map holds the entry put
C14_Witness ==
    /\ op.kind = "File.put"
    /\ op.err
    /\ file.kind = "json"
    /\ op.key \notin DOMAIN file.doc
    /\ fs_map_[op.inst][op.key] = op.entry

\* C15: when the file is absent or unparsable at the first operation of an
\* instance, the instance is loaded with an empty map and the operation does
\* what it does on an empty store: a get returns nothing, an eraseIf
\* returns 0, a put leaves the entry put as the only one, erase and clear
\* leave the map empty; the operation ends with an error only when it is
\* one that flushes and the flush has not written the file.  What later
\* operations do depends on loaded_ and map_ alone.
C15_LoadFailureAbsorbed ==
    [][ ( /\ op'.kind \in FileMutating \cup {"File.get"}
          /\ op'.first
          /\ file.kind # "json" )
        => /\ fs_loaded_'[op'.inst]
           /\ fs_map_'[op'.inst] =
                  IF op'.kind = "File.put"
                      THEN [k \in {op'.key} |-> op'.entry]
                      ELSE <<>>
           /\ op'.kind = "File.get" => op'.ret = None
           /\ op'.kind = "File.eraseIf" => op'.ret = 0
           /\ op'.err => /\ op'.kind \in {"File.put", "File.erase", "File.clear"}
                         /\ file' \in {file, FileGarbage} ]_vars

\* C15 happens: the file is unparsable and the first operation on it, an
\* eraseIf, has returned 0 without error and left an empty, loaded map
C15_Witness ==
    /\ op.kind = "File.eraseIf"
    /\ op.first
    /\ fs_called = {op.inst}
    /\ file = FileGarbage
    /\ ~op.err
    /\ op.ret = 0
    /\ fs_loaded_[op.inst]
    /\ fs_map_[op.inst] = <<>>

\* C23: the file is read at most once for an instance, by the first
\* operation to take the lock, whatever its kind; only one thread at a time
\* is past the lock_guard; no operation works on map_ before loaded_ is
\* set, map_ is empty until then, and once an operation has returned the
\* file has been read exactly once, however it has changed since.
C23_LoadOnce ==
    /\ hist.reads <= 1
    /\ \A t, u \in Threads :
           (thr[t].pc \notin {"idle", "lock"} /\ thr[u].pc \notin {"idle", "lock"})
               => t = u
    /\ \A t \in Threads :
           thr[t].pc \in {"body", "ret"} => (fs_loaded_["A"] /\ hist.reads = 1)
    /\ ~fs_loaded_["A"] => fs_map_["A"] = <<>>
    /\ "A" \in fs_called => (fs_loaded_["A"] /\ hist.reads = 1)

\* C23 happens: both threads have called before any operation has
\* returned; t1 has read the file, which holds an entry, and is at its
\* work on the loaded map while t2 waits for the lock
C23_Witness ==
    /\ fs_called = {}
    /\ thr["t1"].pc = "body"
    /\ thr["t2"].pc = "lock"
    /\ hist.reads = 1
    /\ fs_loaded_["A"]
    /\ file.kind = "json"
    /\ DOMAIN fs_map_["A"] = DOMAIN file.doc
    /\ fs_map_["A"] # <<>>


RefPair(p) ==
    LET eq == Find(p, 61, 1)
    IN  IF eq = 0 THEN <<p, <<>>>>
        ELSE <<SubSeq(p, 1, eq - 1), SubSeq(p, eq + 1, Len(p))>>

\* the order by (key, value)
RefPairLess(a, b) ==
    \/ StrLess(a[1], b[1])
    \/ a[1] = b[1] /\ StrLess(a[2], b[2])

\* the arrangement of the pairs in which no pair comes before a smaller one
RefSorted(items) ==
    LET n == Len(items)
    IN  CHOOSE s \in {[i \in 1..n |-> items[f[i]]] :
                         f \in {g \in [1..n -> 1..n] :
                                   \A i, j \in 1..n : g[i] = g[j] => i = j}} :
            \A i, j \in 1..n : i < j => ~RefPairLess(s[j], s[i])

\* pairs rejoined with '&', "key" for an empty value and "key=value" otherwise
RECURSIVE RefJoin(_)
RefJoin(items) ==
    IF items = <<>> THEN <<>>
    ELSE LET x == Head(items)
             one == IF x[2] = <<>> THEN x[1] ELSE x[1] \o <<61>> \o x[2]
         IN  IF Len(items) = 1 THEN one
             ELSE one \o <<38>> \o RefJoin(Tail(items))

\* the normalized query: the '&'-separated parameters as pairs, sorted, rejoined
RefQuery(query) ==
    LET ps == SplitParams(query)
    IN  RefJoin(RefSorted([i \in 1..Len(ps) |-> RefPair(ps[i])]))

\* "lowercased-name=trimmed-value;" for each listed name found in the
\* headers, in the order of the list
RECURSIVE RefHeaders(_, _)
RefHeaders(headers, include) ==
    IF include = <<>> THEN <<>>
    ELSE LET name  == Head(include)
             found == IF name \in DOMAIN headers THEN Some(headers[name])
                      ELSE IF lower_(name) \in DOMAIN headers
                          THEN Some(headers[lower_(name)])
                      ELSE None
         IN  (IF found.some
                  THEN lower_(name) \o <<61>> \o trim_(found.val) \o <<59>>
                  ELSE <<>>)
             \o RefHeaders(headers, Tail(include))

\* the reference key of a request
RefKey(r) ==
    upper_(r.method) \o <<32>> \o r.path
      \o (IF RefQuery(r.query) # <<>> THEN <<63>> \o RefQuery(r.query) ELSE <<>>)
      \o (IF r.include # <<>>
              THEN <<32, 124, 104, 58>> \o RefHeaders(r.headers, r.include)
              ELSE <<>>)

\* C25: fromRequest returns exactly the reference key: the uppercased
\* method, a space, the path; '?' and the normalized query when that is not
\* empty; " |h:" and the listed headers found, in list order, when the
\* inclusion list is not empty.
C25_ReferenceKey ==
    keyA.some => keyA.val = RefKey(reqA)

(***************************************************************************)
(* The key builder run on inclusion lists of two names: a request is       *)
(* drawn, its key built, then the key of the request with its inclusion    *)
(* list in another order.                                                  *)
(***************************************************************************)

\* header names "ab", "Ab", "c", "a" and "a=;a"; values "v", " v", "w",
\* ";a=" and ""
OrderHeaderMaps ==
    { <<>>,
      [n \in {<<97, 98>>} |-> <<118>>],
      [n \in {<<97, 98>>, <<99>>} |-> IF n = <<99>> THEN <<119>> ELSE <<118>>],
      [n \in {<<65, 98>>, <<99>>} |-> <<118>>],
      [n \in {<<65, 98>>, <<97, 98>>} |-> IF n = <<65, 98>> THEN <<32, 118>> ELSE <<118>>],
      [n \in {<<97>>, <<97, 61, 59, 97>>} |->
          IF n = <<97>> THEN <<59, 97, 61>> ELSE <<>>] }

OrderIncludes ==
    { <<>>,
      <<<<97, 98>>>>,
      <<<<97, 98>>, <<99>>>>, <<<<99>>, <<97, 98>>>>,
      <<<<65, 98>>, <<97, 98>>>>, <<<<97, 98>>, <<65, 98>>>>,
      <<<<97>>, <<97, 61, 59, 97>>>>, <<<<97, 61, 59, 97>>, <<97>>>> }

\* queries "", "a=1" and "b=2&a"
OrderRequests ==
    [method : Methods, path : Paths,
     query : {<<>>, <<97, 61, 49>>, <<98, 61, 50, 38, 97>>},
     headers : OrderHeaderMaps, include : OrderIncludes]

\* l2 holds the names of l1 in another order
Rearranged(l1, l2) ==
    /\ l1 # l2
    /\ Len(l1) = Len(l2)
    /\ \E f \in [1..Len(l1) -> 1..Len(l1)] :
        /\ \A i, j \in 1..Len(l1) : f[i] = f[j] => i = j
        /\ \A i \in 1..Len(l1) : l2[i] = l1[f[i]]

InitKeyOrder ==
    /\ reqA \in OrderRequests
    /\ keyA = None
    /\ reqB = <<>>
    /\ keyB = None
    /\ op = [kind |-> "start"]
    /\ IdleLru /\ IdlePolicy /\ IdleFile /\ IdleThr /\ IdleMem

\* fromRequest on the request with its inclusion list in another order
KeyVaryIncludeOrder ==
    /\ keyA.some /\ ~keyB.some
    /\ \E l \in OrderIncludes :
        /\ Rearranged(reqA.include, l)
        /\ reqB' = [reqA EXCEPT !.include = l]
    /\ keyB' = Some(KeyOf(reqB'))
    /\ op' = [kind |-> "varyIncludeOrder"]
    /\ UNCHANGED <<reqA, keyA, lruVars, policy_, fileVars, thrVars, mem_>>

NextKeyOrder == KeyBuild \/ KeyVaryIncludeOrder

SpecKeyOrder == InitKeyOrder /\ [][NextKeyOrder]_vars

\* every listed name is in the headers, as written or lowercased, no two
\* listed names have the same lowercased name, and no listed name holds '='
\* or ';'
ListedFoundApart(r) ==
    /\ \A i \in 1..Len(r.include) :
        /\ r.include[i] \in DOMAIN r.headers
            \/ lower_(r.include[i]) \in DOMAIN r.headers
        /\ \A c \in 1..Len(r.include[i]) : r.include[i][c] \notin {61, 59}
    /\ \A i, j \in 1..Len(r.include) :
        lower_(r.include[i]) = lower_(r.include[j]) => i = j

\* C26 as stated: two requests with the same method, path, query and
\* headers whose inclusion lists hold the same names in different orders get
\* different keys.
C26_OrderChangesKey ==
    op.kind = "varyIncludeOrder" => keyA # keyB

\* C26: the headers enter the key in the order of the inclusion list: each
\* key ends with the parts of the listed names in list order; and two
\* requests that differ only in the order of their inclusion lists get
\* different keys when every listed name is found in the headers, no two
\* listed names lowercase to the same name and no listed name holds '=' or
\* ';'.
C26_OrderChangesKeyWhenFound ==
    op.kind = "varyIncludeOrder" =>
        /\ keyA.val = RefKey(reqA)
        /\ keyB.val = RefKey(reqB)
        /\ ListedFoundApart(reqA) => keyA # keyB

\* keys were built for the lists ("ab", "c") and ("c", "ab") over headers
\* holding both names, and they differ
C26_Witness ==
    /\ op.kind = "varyIncludeOrder"
    /\ reqA.include = <<<<97, 98>>, <<99>>>>
    /\ reqB.include = <<<<99>>, <<97, 98>>>>
    /\ DOMAIN reqA.headers = {<<97, 98>>, <<99>>}
    /\ ListedFoundApart(reqA)
    /\ keyA # keyB

(***************************************************************************)
(* The header normalisation run on header maps: a map is drawn and         *)
(* normalised, and what it leaves is normalised again.                     *)
(***************************************************************************)

\* the most headers of a map
MaxHeaders == 3

\* "Ab", "ab", "AB", "C-t", "x"
NormNames == {<<65, 98>>, <<97, 98>>, <<65, 66>>, <<67, 45, 116>>, <<120>>}

\* "v", "w"
NormValues == {<<118>>, <<119>>}

NormHeaderMaps ==
    UNION {[names -> NormValues] :
              names \in {ns \in SUBSET NormNames : Cardinality(ns) <= MaxHeaders}}

InitNorm ==
    /\ op \in [kind : {"headers"}, headers : NormHeaderMaps]
    /\ IdleLru /\ IdlePolicy /\ IdleKey /\ IdleFile /\ IdleThr /\ IdleMem

\* HeaderUtil::normalizeInPlace on the headers
Normalize ==
    /\ \E norm \in normalizeInPlace(op.headers) :
        op' = [kind |-> "normalizeInPlace", before |-> op.headers, headers |-> norm]
    /\ UNCHANGED <<lruVars, policy_, keyVars, fileVars, thrVars, mem_>>

NextNorm == Normalize

SpecNorm == InitNorm /\ [][NextNorm]_vars

\* no uppercase letter in the name
IsLowerName(n) == \A i \in 1..Len(n) : ~(n[i] >= 65 /\ n[i] <= 90)

\* C27: normalizeInPlace leaves one header for each distinct lowercased
\* name of the headers given, every name lowercase; the value under a name is
\* the value of one of the headers given whose name lowercases to it, and a
\* header whose lowercased name no other header shares keeps its value.
C27_CollisionsResolved ==
    op.kind = "normalizeInPlace" =>
        /\ DOMAIN op.headers = {lower_(n) : n \in DOMAIN op.before}
        /\ \A m \in DOMAIN op.headers :
            /\ IsLowerName(m)
            /\ \E n \in DOMAIN op.before :
                lower_(n) = m /\ op.headers[m] = op.before[n]
        /\ \A n \in DOMAIN op.before :
            (\A n2 \in DOMAIN op.before : lower_(n2) = lower_(n) => n2 = n)
                => op.headers[lower_(n)] = op.before[n]

\* "Ab" and "ab" were given with different values, and "C-t": two headers
\* are left, "ab" with the value of one of the two and "c-t" with its own
C27_Witness ==
    /\ op.kind = "normalizeInPlace"
    /\ DOMAIN op.before = {<<65, 98>>, <<97, 98>>, <<67, 45, 116>>}
    /\ op.before[<<65, 98>>] # op.before[<<97, 98>>]
    /\ DOMAIN op.headers = {<<97, 98>>, <<99, 45, 116>>}
    /\ op.headers[<<97, 98>>] = op.before[<<65, 98>>]
    /\ op.headers[<<99, 45, 116>>] = op.before[<<67, 45, 116>>]

(***************************************************************************)
(* CacheContextMapper.  A NetworkProbe is what its isOnline answers at     *)
(* each time.                                                              *)
(***************************************************************************)

\* CacheContext{}: both flags false, which is also CacheContext::Online()
CacheContext_Online == [offline |-> FALSE, network_error |-> FALSE]

RequestOutcome == {"Ok", "NetworkError"}

\* a mapping that never reports offline
contextFromProbeMutOnline(probe, now_ms) == CacheContext_Online

\* contextFromProbe
contextFromProbe(probe, now_ms) ==
    LET ctx == CacheContext_Online
    IN  IF ~probe[now_ms] THEN [ctx EXCEPT !.offline = TRUE] ELSE ctx

\* contextFromProbeAndOutcome
contextFromProbeAndOutcome(probe, now_ms, outcome) ==
    LET ctx == contextFromProbe(probe, now_ms)
    IN  IF outcome = "NetworkError" THEN [ctx EXCEPT !.network_error = TRUE]
        ELSE ctx

NetworkProbes == [0..MaxTime -> BOOLEAN]

InitContext ==
    /\ op \in [kind : {"probe"}, probe : NetworkProbes]
    /\ IdleLru /\ IdlePolicy /\ IdleKey /\ IdleFile /\ IdleThr /\ IdleMem

ContextFromProbe ==
    /\ \E now_ms \in 0..MaxTime :
        op' = [kind |-> "contextFromProbe", probe |-> op.probe, now_ms |-> now_ms,
               ret |-> contextFromProbe(op.probe, now_ms)]
    /\ UNCHANGED <<lruVars, policy_, keyVars, fileVars, thrVars, mem_>>

ContextFromProbeAndOutcome ==
    /\ \E now_ms \in 0..MaxTime, outcome \in RequestOutcome :
        op' = [kind |-> "contextFromProbeAndOutcome", probe |-> op.probe,
               now_ms |-> now_ms, outcome |-> outcome,
               ret |-> contextFromProbeAndOutcome(op.probe, now_ms, outcome)]
    /\ UNCHANGED <<lruVars, policy_, keyVars, fileVars, thrVars, mem_>>

NextContext == ContextFromProbe \/ ContextFromProbeAndOutcome

SpecContext == InitContext /\ [][NextContext]_vars

\* C28: contextFromProbe gives offline = not probe.isOnline(now) and
\* network_error = false; contextFromProbeAndOutcome gives the same offline
\* flag and network_error = (outcome is NetworkError): both flags true for an
\* offline probe with NetworkError, the Online context for an online probe
\* with Ok.
C28_ContextFromProbe ==
    /\ op.kind = "contextFromProbe" =>
        /\ op.ret.offline = ~op.probe[op.now_ms]
        /\ op.ret.network_error = FALSE
    /\ op.kind = "contextFromProbeAndOutcome" =>
        /\ op.ret.offline = ~op.probe[op.now_ms]
        /\ op.ret.network_error = (op.outcome = "NetworkError")
        /\ (~op.probe[op.now_ms] /\ op.outcome = "NetworkError")
            => (op.ret.offline /\ op.ret.network_error)
        /\ (op.probe[op.now_ms] /\ op.outcome = "Ok")
            => op.ret = [offline |-> FALSE, network_error |-> FALSE]

\* a probe that is offline at time 1 and online at time 0 was asked at time 1
\* after a network error: both flags are set
C28_Witness ==
    /\ op.kind = "contextFromProbeAndOutcome"
    /\ op.probe[0] /\ ~op.probe[1]
    /\ op.now_ms = 1
    /\ op.outcome = "NetworkError"
    /\ op.ret = [offline |-> TRUE, network_error |-> TRUE]

(***************************************************************************)
(* Two FileStore instances on one path, under SpecFile                     *)
(***************************************************************************)

\* what a newly constructed instance on the path would load from file f
FreshMap(f) == load_(FileStore_loaded_, <<>>, f).map

\* op was a put that returned on an instance that had loaded before, and
\* op' is a put of another key that returned on the other instance, which
\* had loaded before as well
PutAfterPut ==
    /\ op.kind = "File.put" /\ ~op.err /\ ~op.first
    /\ op'.kind = "File.put" /\ ~op'.err
    /\ op'.inst # op.inst
    /\ fs_loaded_[op'.inst]
    /\ op'.key # op.key

\* C29 as stated: when A and B have both loaded, A.put(k1, e1) followed by
\* B.put(k2, e2) leaves a file from which a new instance gets k2 but not k1.
C29_LostUpdate ==
    [][ PutAfterPut
        => /\ op'.key \in DOMAIN FreshMap(file')
           /\ op.key \notin DOMAIN FreshMap(file') ]_vars

\* C29: an instance that has loaded does not see what another instance
\* writes: its map changes through its own operations only, its gets answer
\* from its map whatever the file holds, and each of its puts, erases and
\* clears that returns without error leaves the file holding its whole map
\* and nothing else.  So when A and B have both loaded, A.put(k1, e1)
\* followed by B.put(k2, e2) leaves a file from which a new instance gets e2
\* under k2 and, under k1, what B's map held before: nothing when B's map
\* did not hold k1, else B's entry.
C29_OwnMapOverwrites ==
    [][ /\ \A i \in FileInstances :
            (fs_loaded_[i] /\ op'.inst # i)
                => (fs_loaded_'[i] /\ fs_map_'[i] = fs_map_[i])
        /\ (op'.kind = "File.get" /\ fs_loaded_[op'.inst])
            => op'.ret = IF op'.key \in DOMAIN fs_map_[op'.inst]
                             THEN Some(fs_map_[op'.inst][op'.key]) ELSE None
        /\ (op'.kind \in {"File.put", "File.erase", "File.clear"} /\ ~op'.err)
            => FreshMap(file') = fs_map_'[op'.inst]
        /\ PutAfterPut
            => /\ op'.key \in DOMAIN FreshMap(file')
               /\ FreshMap(file')[op'.key] = op'.entry
               /\ op.key \in DOMAIN FreshMap(file')
                      <=> op.key \in DOMAIN fs_map_[op'.inst]
               /\ op.key \in DOMAIN fs_map_[op'.inst]
                      => FreshMap(file')[op.key] = fs_map_[op'.inst][op.key] ]_vars

\* B's put of y has returned and the file holds y only, while A, which had
\* loaded before, holds x, which it can only have put itself: a new instance
\* gets y and not x
C29_Witness ==
    /\ op.kind = "File.put" /\ op.inst = "B" /\ ~op.err /\ ~op.first
    /\ op.key = "y"
    /\ DOMAIN FreshMap(file) = {"y"}
    /\ DOMAIN fs_map_["B"] = {"y"}
    /\ fs_loaded_["A"]
    /\ DOMAIN fs_map_["A"] = {"x"}

(***************************************************************************)
(* An LruMemoryStore and a MemoryStore given the same calls, one call at a *)
(* time, the puts using no more than max_entries distinct keys.  hist.keys *)
(* is the keys put so far; hist.last holds, for each key, the entry of its *)
(* last put when no erase of the key and no clear has come since.          *)
(***************************************************************************)

InitBoth ==
    /\ cfg_ \in [max_entries : 0..MaxEntries]
    /\ lru_ = <<>>
    /\ map_ = <<>>
    /\ uses = <<>>
    /\ mem_ = <<>>
    /\ hist = [keys |-> {}, last |-> <<>>]
    /\ mu_ = "free" /\ thr = <<>>
    /\ op = [kind |-> "start"]
    /\ IdleKey /\ IdlePolicy /\ IdleFile

\* the two stores after a call left the LRU store as l says and the
\* MemoryStore as m says
BothLeave(l, m, last, o) ==
    /\ lru_' = l.lru
    /\ map_' = l.map
    /\ mem_' = m.map
    /\ hist' = [keys |-> IF o.kind = "put" THEN hist.keys \cup {o.key} ELSE hist.keys,
                last |-> last]
    /\ op' = o
    /\ UNCHANGED <<cfg_, uses, mu_, thr, policy_, keyVars, fileVars>>

BothPut ==
    \E key \in LruKeys, entry \in LruEntries :
        /\ Cardinality(hist.keys \cup {key}) <= cfg_.max_entries
        /\ BothLeave(Lru_put(lru_, map_, key, entry), Mem_put(mem_, key, entry),
                     [k \in DOMAIN hist.last \cup {key} |->
                         IF k = key THEN entry ELSE hist.last[k]],
                     [kind |-> "put", key |-> key, entry |-> entry])

BothGet ==
    \E key \in LruKeys :
        LET l == Lru_get(lru_, map_, key)
            m == Mem_get(mem_, key)
        IN  BothLeave(l, m, hist.last,
                      [kind |-> "get", key |-> key, ret |-> l.ret, retMem |-> m.ret])

BothErase ==
    \E key \in LruKeys :
        BothLeave(Lru_erase(lru_, map_, key), Mem_erase(mem_, key),
                  [k \in DOMAIN hist.last \ {key} |-> hist.last[k]],
                  [kind |-> "erase", key |-> key])

BothClear ==
    BothLeave(Lru_clear(lru_, map_), Mem_clear(mem_), <<>>, [kind |-> "clear"])

NextBoth == BothPut \/ BothGet \/ BothErase \/ BothClear

SpecBoth == InitBoth /\ [][NextBoth]_vars

\* C30: given the same puts, gets, erases and clears, with no more than
\* max_entries distinct keys put, the LRU store and the MemoryStore return
\* the same for every get: the entry of the last put of the key when no
\* erase of the key and no clear has come since, else nothing; and the two
\* stores hold the same keys with the same entries.
C30_LruAsMemoryStore ==
    /\ op.kind = "get" =>
        /\ op.ret = op.retMem
        /\ op.ret = IF op.key \in DOMAIN hist.last
                        THEN Some(hist.last[op.key]) ELSE None
    /\ DOMAIN map_ = DOMAIN mem_
    /\ \A k \in DOMAIN mem_ : map_[k].entry = mem_[k]

\* with room for two entries, x and y were put, x got its second entry, and
\* a get of x has returned that entry from both stores, y still being held
C30_Witness ==
    /\ cfg_.max_entries = 2
    /\ hist.keys = {"x", "y"}
    /\ op.kind = "get" /\ op.key = "x"
    /\ op.ret = Some(CacheEntry(404, "b", <<>>, 0))
    /\ op.retMem = op.ret
    /\ DOMAIN mem_ = {"x", "y"}
    /\ mem_["y"] = CacheEntry(200, "a", <<>>, 0)
    /\ KeysOf(lru_) = <<"x", "y">>

(***************************************************************************)
(* The facade over an LruMemoryStore, with one refused get kept in mind:   *)
(* hist is None, or the key, the context and the time of a get that found  *)
(* an entry it could not serve, no put of that key having come since.      *)
(***************************************************************************)

\* policies whose longest window is the ttl, the error window and the offline
\* window in turn, one with both stale windows in use, and one with a
\* negative ttl
ExpiryPolicies ==
    FilePolicies \cup {CachePolicy(1, 0, 1, FALSE, FALSE), CachePolicy(0, 2, 1, TRUE, TRUE),
                       CachePolicy(-2, 0, 1, FALSE, FALSE)}

\* entries created at 0 and at 1
ExpiryEntries == {CacheEntry(200, "a", <<>>, 0), CacheEntry(200, "a", <<>>, 1)}

InitCacheExpiry ==
    /\ policy_ \in ExpiryPolicies
    /\ cfg_ = [max_entries |-> 2]
    /\ lru_ = <<>>
    /\ map_ = <<>>
    /\ uses = <<>>
    /\ hist = None
    /\ mu_ = "free" /\ thr = <<>>
    /\ op = [kind |-> "start"]
    /\ IdleKey /\ IdleFile /\ IdleMem

\* the facade's store after a call
ExpiryLeaves(r, h, o) ==
    /\ lru_' = r.lru
    /\ map_' = r.map
    /\ hist' = h
    /\ op' = o
    /\ UNCHANGED <<cfg_, uses, policy_, mu_, thr, keyVars, fileVars, mem_>>

ExpiryPut ==
    \E key \in CacheKeys, entry \in ExpiryEntries :
        \E r \in Cache_put(lru_, map_, key, entry) :
            ExpiryLeaves(r, IF hist.some /\ hist.val.key = key THEN None ELSE hist,
                         [kind |-> "Cache.put", key |-> key, entry |-> entry])

ExpiryGet ==
    \E key \in CacheKeys, now_ms \in 0..MaxTime, ctx \in CacheContext :
        LET r == Cache_get(lru_, map_, key, now_ms, ctx)
        IN  \E h \in {hist} \cup
                     (IF key \in DOMAIN map_ /\ ~r.ret.some
                          THEN {Some([key |-> key, ctx |-> ctx, now_ms |-> now_ms])}
                          ELSE {}) :
                ExpiryLeaves(r, h, [kind |-> "Cache.get", key |-> key,
                                    now_ms |-> now_ms, ctx |-> ctx, ret |-> r.ret])

ExpiryPrune ==
    \E now_ms \in 0..MaxTime :
        LET r == Cache_prune(lru_, map_, now_ms)
        IN  ExpiryLeaves(r, hist, [kind |-> "Cache.prune", now_ms |-> now_ms,
                                   ret |-> r.ret])

NextCacheExpiry == ExpiryPut \/ ExpiryGet \/ ExpiryPrune

SpecCacheExpiry == InitCacheExpiry /\ [][NextCacheExpiry]_vars

\* C31: when a get of k under ctx at time now has found an entry it could
\* not serve and no put of k has come since, a get of k under ctx at any time
\* from now on returns nothing; and every entry a prune at time now removes
\* would be returned by no get at any time from now on, under any context.
C31_ExpiryMonotone ==
    [][ /\ ( /\ op'.kind = "Cache.get"
             /\ hist.some
             /\ hist.val.key = op'.key
             /\ hist.val.ctx = op'.ctx
             /\ op'.now_ms >= hist.val.now_ms )
            => ~op'.ret.some
        /\ op'.kind = "Cache.prune"
            => \A k \in DOMAIN map_ \ DOMAIN map_' :
                   \A ctx \in CacheContext, t \in op'.now_ms..MaxTime :
                       ~Cache_get(lru_, map_, k, t, ctx).ret.some ]_vars

\* a get of x at time 1 was refused, other calls came, and a get of x at
\* time 3 under the same context has returned nothing, the entry still being
\* in the store
C31_Witness ==
    /\ op.kind = "Cache.get"
    /\ op.key = "x" /\ op.now_ms = 3
    /\ ~op.ret.some
    /\ "x" \in DOMAIN map_
    /\ hist = Some([key |-> "x", ctx |-> op.ctx, now_ms |-> 1])
    /\ "y" \in DOMAIN map_

\* C32: under a policy with ttl_ms >= 0, an entry created later than now is
\* fresh: a get at time now returns it under every context, and a prune at
\* time now leaves it in the store.
C32_FutureEntryFresh ==
    [][ policy_.ttl_ms >= 0 =>
        /\ ( /\ op'.kind = "Cache.get"
             /\ op'.key \in DOMAIN map_
             /\ map_[op'.key].entry.created_at_ms > op'.now_ms )
            => op'.ret = Some(map_[op'.key].entry)
        /\ op'.kind = "Cache.prune"
            => \A k \in DOMAIN map_ :
                   map_[k].entry.created_at_ms > op'.now_ms
                       => /\ k \in DOMAIN map_'
                          /\ map_'[k].entry = map_[k].entry ]_vars

\* under a policy with ttl 0 and no stale window in use for it, a get at
\* time 0 without network trouble has returned an entry created at 1
C32_Witness ==
    /\ policy_.ttl_ms = 0
    /\ op.kind = "Cache.get"
    /\ op.now_ms = 0
    /\ op.ctx = [offline |-> FALSE, network_error |-> FALSE]
    /\ op.ret.some
    /\ op.ret.val.created_at_ms = 1

(***************************************************************************)
(* The key builder run on a query and on its normalized form: a request is *)
(* drawn, its key built, then the key of the request with normalizeQuery_  *)
(* of its query in place of the query.                                     *)
(***************************************************************************)

\* fromRequest on the request with its query already normalized
KeyVaryNormalized ==
    /\ keyA.some /\ ~keyB.some
    /\ reqB' = [reqA EXCEPT !.query = normalizeQuery_(reqA.query)]
    /\ keyB' = Some(KeyOf(reqB'))
    /\ op' = [kind |-> "varyNormalized"]
    /\ UNCHANGED <<reqA, keyA, lruVars, policy_, fileVars, thrVars, mem_>>

NextKeyNormalized == KeyBuild \/ KeyVaryNormalized

SpecKeyNormalized == InitKey /\ [][NextKeyNormalized]_vars

\* C33: normalizeQuery_ is idempotent: the normalized form of a query
\* normalizes to itself, and the key built from the normalized form of a
\* query is the key built from the query.
C33_NormalizeIdempotent ==
    op.kind = "varyNormalized" =>
        /\ normalizeQuery_(reqB.query) = reqB.query
        /\ keyA = keyB
====
